---- MODULE Spec2Model ----
(***************************************************************************)
(* Crawl / extract / enrich pipeline of the support-program crawler.       *)
(*                                                                         *)
(* Several state machines share this module, each with its own             *)
(* specification:                                                          *)
(*   SpecFetch  the HTTP page fetchers of both sources                     *)
(*              (bizinfo.ts fetchListPage / fetchDetailPage,               *)
(*               kstartup.ts fetchListPage / fetchDetailPage)              *)
(*   SpecPup    processBizinfoPage, the rendering capturer                 *)
(*   Spec       a crawl pass: crawlBizinfo / crawlKStartup and the store   *)
(*   SpecLlm    extractApplicationTarget and the vision extraction         *)
(*   SpecMerge  the merge of extraction results into a record              *)
(*   SpecDate   the application period parsers of both sources             *)
(*   SpecParse  the K-Startup detail section parser                        *)
(*   SpecBatch, SpecBatchFair  POST /api/process-llm                       *)
(* A specification leaves the variables of the other machines untouched.   *)
(***************************************************************************)
EXTENDS Integers, Sequences, FiniteSets, TLC

VARIABLES
  \* ---- page fetcher (one call of fetchListPage / fetchDetailPage) ----
  fSrc,        \* which source's fetcher is running
  fKind,       \* "list" or "detail"
  fStatus,     \* "idle" | "running" | "returned" | "thrown"
  fAttempt,    \* the loop variable `attempt` (bizinfo); requests made (k-startup)
  fLastError,  \* the variable lastError
  fBody,       \* the html text returned
  fTrace,      \* history: the outcome of every request made by this call
  fSlept,      \* history: total backoff slept by this call, in ms
  fCalls       \* number of fetcher calls started so far

fetchVars == <<fSrc, fKind, fStatus, fAttempt, fLastError, fBody, fTrace, fSlept, fCalls>>

VARIABLES
  \* ---- processBizinfoPage (one call at a time, as the crawl awaits each) ----
  pPc,          \* position in processBizinfoPage
  pPage,        \* the variable `page` is non-null
  pOpenPages,   \* tabs currently open in the browser
  pNavAttempt,  \* the loop variable `attempt` of the navigation loop
  pViewer,      \* viewerFrame is non-null
  pRound,       \* the loop variable i of the height measurement
  pFinalHeight, \* finalHeight
  pCaptured,    \* capturedHeight
  pShots,       \* screenshots, each a record of what was captured
  pResult,      \* what the call returned
  pVisionArg,   \* history: the chunk list handed to extractTargetFromImage
  pOpened,      \* history: tabs opened over all calls
  pCalls,       \* calls started so far
  pRaised       \* history: the step of this call that raised, or "none"

pupVars == <<pPc, pPage, pOpenPages, pNavAttempt, pViewer, pRound, pFinalHeight,
             pCaptured, pShots, pResult, pVisionArg, pOpened, pCalls, pRaised>>

VARIABLES
  \* ---- a crawl pass: crawlBizinfo / crawlKStartup ----
  cPc,             \* "idle" | "launch" | "firstPage" | "pageStart" | "items" | "returned"
  cOpt,            \* the options of the call (and whether a browser was passed in)
  cSite,           \* the source site as this pass sees it: its list pages
  cPage,           \* the loop variable page
  cTotalPages,     \* totalPages
  cItems,          \* items of the current list page
  cIdx,            \* index of the next item of cItems
  cErrors,         \* errors
  cSuccessCount,   \* successCount
  cTotalProcessed, \* totalProcessed
  cLocalBrowser,   \* localBrowser: "none" | "open" | "closed"
  cGivenBrowser,   \* the browser parameter: "none" | "open" | "closed"
  cResult,         \* the CrawlResult returned
  store,           \* the supportProgram table
  clock,           \* wall clock, advanced by every awaited delay or I/O
  \* history
  cLog,            \* what the pass did, in order
  cLast,           \* how the last item was processed
  cUpserts,        \* per key, the times of its completed upserts
  cParsed          \* keys for which an LLM call returned a parseable response

VARIABLES
  \* ---- one call into the LLM extraction client (extract-target.ts) ----
  lPc,            \* "none" | "idle" | "done"
  lOp,            \* the function called: "text" | "image" | "parse" | "none"
  lIn,            \* the arguments, the credential and what the endpoint would answer
  lOut,           \* what the function returned
  lEndpointCalls  \* calls of generateContent made

llmVars == <<lPc, lOp, lIn, lOut, lEndpointCalls>>

VARIABLES
  \* ---- the detail branch of crawlBizinfo for one item, tier by tier ----
  mPc,      \* "idle" | "parsed" | "keyword" | "text" | "vision" | "stored"
  mIn,      \* the item, the options and what each tier's source yields
  mD,       \* detailData
  mPrev,    \* detailData before the last tier ran
  mTarget,  \* what the last LLM tier returned
  mVision,  \* processBizinfoPage was called
  mStored   \* the create payload handed to the upsert

mergeVars == <<mPc, mIn, mD, mPrev, mTarget, mVision, mStored>>

VARIABLES
  \* ---- the parsing of one application-period string ----
  tPc,   \* "idle" | "input" | "parsed"
  tIn,   \* the source and the text that follows the period label
  tOut   \* applicationStart and applicationEnd as parsed

dateVars == <<tPc, tIn, tOut>>

VARIABLES
  \* ---- parseDetailPage of bizinfo.ts on one detail page ----
  qPc,   \* "idle" | "input" | "parsed"
  qIn,   \* the (label, value) pairs of the page: sections and table rows
  qOut   \* result after the first pass, whether the second ran, result after both

parseVars == <<qPc, qIn, qOut>>

VARIABLES
  \* ---- POST /api/process-llm, the batch re-extraction endpoint ----
  bPc,        \* "idle" | "loop"
  bReq,       \* limit and force of the request, and whether GEMINI_API_KEY is set
  bPrograms,  \* what findMany returned
  bIdx,       \* position of the for loop in programs
  bResults,   \* the array results
  bStore,     \* the rows of the supportProgram table
  bResponse,  \* the last response sent
  bAtCall,    \* history: the table as findMany saw it
  bSelected,  \* history: ids selected by calls without force
  bTwice      \* history: a call without force selected an id selected before

batchVars == <<bPc, bReq, bPrograms, bIdx, bResults, bStore, bResponse, bAtCall,
               bSelected, bTwice>>

crawlVars == <<cPc, cOpt, cSite, cPage, cTotalPages, cItems, cIdx, cErrors,
               cSuccessCount, cTotalProcessed, cLocalBrowser, cGivenBrowser,
               cResult, store, clock, cLog, cLast, cUpserts, cParsed>>

vars == <<fetchVars, pupVars, crawlVars, llmVars, mergeVars, dateVars, parseVars, batchVars>>

nonFetchVars == <<pupVars, crawlVars, llmVars, mergeVars, dateVars, parseVars, batchVars>>
nonPupVars == <<fetchVars, crawlVars, llmVars, mergeVars, dateVars, parseVars, batchVars>>
nonCrawlVars == <<fetchVars, pupVars, llmVars, mergeVars, dateVars, parseVars, batchVars>>
nonLlmVars == <<fetchVars, pupVars, crawlVars, mergeVars, dateVars, parseVars, batchVars>>
nonMergeVars == <<fetchVars, pupVars, crawlVars, llmVars, dateVars, parseVars, batchVars>>
nonDateVars == <<fetchVars, pupVars, crawlVars, llmVars, mergeVars, parseVars, batchVars>>
nonParseVars == <<fetchVars, pupVars, crawlVars, llmVars, mergeVars, dateVars, batchVars>>
nonBatchVars == <<fetchVars, pupVars, crawlVars, llmVars, mergeVars, dateVars, parseVars>>

Sources == {"bizinfo", "k-startup"}
NoVal == "undef"

\* extractTargetFromImage has not been called by the current call
NotCalled == [called |-> FALSE, chunks |-> <<>>]

Min(a, b) == IF a < b THEN a ELSE b
Max(a, b) == IF a > b THEN a ELSE b

(***************************************************************************)
(* HTTP fetcher                                                            *)
(***************************************************************************)
MaxFetchCalls == 2

\* What one request can do: answer 2xx with a body, answer non-2xx, or fail
\* at the network level (fetch rejects).
Bodies == {"htmlA", "htmlB"}
NetOutcomes ==
  [kind : {"ok"}, body : Bodies] \cup [kind : {"http", "neterr"}, body : {NoVal}]

\* for (let attempt = 0; attempt < 3; attempt++)
BIZINFO_ATTEMPTS == 3
\* setTimeout(r, 2000 * (attempt + 1))
BACKOFF_MS == 2000

InitFetchVars ==
  /\ fSrc = "bizinfo"
  /\ fKind = "list"
  /\ fStatus = "idle"
  /\ fAttempt = 0
  /\ fLastError = NoVal
  /\ fBody = NoVal
  /\ fTrace = <<>>
  /\ fSlept = 0
  /\ fCalls = 0

InitPupVars ==
  /\ pPc = "idle"
  /\ pPage = FALSE
  /\ pOpenPages = 0
  /\ pNavAttempt = 0
  /\ pViewer = FALSE
  /\ pRound = 0
  /\ pFinalHeight = 0
  /\ pCaptured = 0
  /\ pShots = <<>>
  /\ pResult = NoVal
  /\ pVisionArg = NotCalled
  /\ pOpened = 0
  /\ pCalls = 0
  /\ pRaised = "none"

\* A caller invokes fetchListPage(page) or fetchDetailPage(id).
FetchCall ==
  /\ fStatus \in {"idle", "returned", "thrown"}
  /\ fCalls < MaxFetchCalls
  /\ \E s \in Sources, k \in {"list", "detail"} :
       /\ fSrc' = s
       /\ fKind' = k
  /\ fStatus' = "running"
  /\ fAttempt' = 0
  /\ fLastError' = NoVal
  /\ fBody' = NoVal
  /\ fTrace' = <<>>
  /\ fSlept' = 0
  /\ fCalls' = fCalls + 1
  /\ UNCHANGED nonFetchVars

\* A fetcher that gives up on the first failed request instead of retrying.
BizinfoFetchAttempt_NoRetry ==
  /\ fStatus = "running"
  /\ fSrc = "bizinfo"
  /\ fAttempt < BIZINFO_ATTEMPTS
  /\ \E o \in NetOutcomes :
       /\ fTrace' = Append(fTrace, o)
       /\ IF o.kind = "ok"
            THEN /\ fStatus' = "returned"
                 /\ fBody' = o.body
                 /\ UNCHANGED <<fAttempt, fLastError, fSlept>>
            ELSE /\ fLastError' = o.kind
                 /\ fStatus' = "thrown"
                 /\ fAttempt' = fAttempt + 1
                 /\ UNCHANGED <<fSlept, fBody>>
  /\ UNCHANGED <<fSrc, fKind, fCalls>>
  /\ UNCHANGED nonFetchVars

\* bizinfo.ts: one iteration of the retry loop. The list and the detail
\* fetcher have the same body but for the url.
BizinfoFetchAttempt ==
  /\ fStatus = "running"
  /\ fSrc = "bizinfo"
  /\ fAttempt < BIZINFO_ATTEMPTS
  /\ \E o \in NetOutcomes :
       /\ fTrace' = Append(fTrace, o)
       /\ IF o.kind = "ok"
            THEN \* return await response.text()
                 /\ fStatus' = "returned"
                 /\ fBody' = o.body
                 /\ UNCHANGED <<fAttempt, fLastError, fSlept>>
            ELSE \* catch (e) { lastError = e; await sleep(2000 * (attempt + 1)) }
                 /\ fLastError' = o.kind
                 /\ fSlept' = fSlept + BACKOFF_MS * (fAttempt + 1)
                 /\ fAttempt' = fAttempt + 1
                 /\ UNCHANGED <<fStatus, fBody>>
  /\ UNCHANGED <<fSrc, fKind, fCalls>>
  /\ UNCHANGED nonFetchVars

\* bizinfo.ts: the loop ran out of attempts: throw lastError
BizinfoFetchThrow ==
  /\ fStatus = "running"
  /\ fSrc = "bizinfo"
  /\ fAttempt >= BIZINFO_ATTEMPTS
  /\ fStatus' = "thrown"
  /\ UNCHANGED <<fSrc, fKind, fAttempt, fLastError, fBody, fTrace, fSlept, fCalls>>
  /\ UNCHANGED nonFetchVars

\* kstartup.ts: a single request; a rejection of fetch or a non-2xx status
\* leaves the function as an exception at once.
KStartupFetchAttempt ==
  /\ fStatus = "running"
  /\ fSrc = "k-startup"
  /\ \E o \in NetOutcomes :
       /\ fTrace' = Append(fTrace, o)
       /\ fAttempt' = fAttempt + 1
       /\ IF o.kind = "ok"
            THEN /\ fStatus' = "returned"
                 /\ fBody' = o.body
                 /\ UNCHANGED fLastError
            ELSE /\ fStatus' = "thrown"
                 /\ fLastError' = o.kind
                 /\ UNCHANGED fBody
  /\ UNCHANGED <<fSrc, fKind, fSlept, fCalls>>
  /\ UNCHANGED nonFetchVars

NextFetch ==
  \/ FetchCall
  \/ BizinfoFetchAttempt
  \/ BizinfoFetchThrow
  \/ KStartupFetchAttempt

Failed(o) == o.kind # "ok"

\* C3: the Bizinfo page fetch makes at most 3 requests; a non-2xx status or a
\* network error is a failed attempt and is retried; the body of the first
\* successful request is returned with no further request; the fetch raises
\* only after 3 consecutive failed requests.
Thm_C3_BizinfoFetchRetries ==
  fSrc = "bizinfo" /\ fStatus # "idle" =>
    /\ Len(fTrace) <= 3
    /\ fStatus = "running" =>
         /\ \A i \in 1..Len(fTrace) : Failed(fTrace[i])
         /\ Len(fTrace) < 3 => ENABLED BizinfoFetchAttempt
    /\ fStatus = "returned" =>
         /\ Len(fTrace) >= 1
         /\ fTrace[Len(fTrace)].kind = "ok"
         /\ fBody = fTrace[Len(fTrace)].body
         /\ \A i \in 1..(Len(fTrace) - 1) : Failed(fTrace[i])
    /\ fStatus = "thrown" =>
         /\ Len(fTrace) = 3
         /\ \A i \in 1..3 : Failed(fTrace[i])

\* The third request succeeds after a non-2xx answer and a network error.
Wit_C3_ThirdAttemptReturns ==
  /\ fSrc = "bizinfo"
  /\ fStatus = "returned"
  /\ Len(fTrace) = 3
  /\ fTrace[1].kind = "http"
  /\ fTrace[2].kind = "neterr"
  /\ fBody = "htmlB"

\* C4: in the K-Startup crawler a fetch that gets a non-2xx status or a
\* network error is retried, up to 3 requests in total, before the fetch is
\* reported as failed.
Cex_C4_KStartupFetchRetries ==
  fSrc = "k-startup" /\ fStatus = "thrown" => Len(fTrace) = 3

(***************************************************************************)
(* Rendering capturer: processBizinfoPage                                  *)
(***************************************************************************)
MaxPupCalls == 2

NAV_ATTEMPTS == 3       \* for (let attempt = 0; attempt < 3; attempt++)
MEASURE_ROUNDS == 5     \* for (let i = 0; i < 5; i++)
INITIAL_HEIGHT == 2000  \* let finalHeight = 2000
BREAK_HEIGHT == 1000    \* else if (currentHeight > 1000) break
MIN_HEIGHT == 2000      \* Math.max(finalHeight, 2000)
MAX_HEIGHT == 20000     \* Math.min(..., 20000)
CHUNK_HEIGHT == 3000    \* const CHUNK_HEIGHT = 3000
MAX_CHUNKS == 6         \* const MAX_CHUNKS = 6

\* Heights the viewer can report for the maximum scrollHeight of its elements.
MeasuredHeights ==
  {0, 900, 1500, 2500, 3000, 6000, 7100, 17999, 18000, 18001, 20000, 26000}

\* finalHeight = Math.min(Math.max(finalHeight, 2000), 20000)
ClampHeight(h) == Min(Max(h, MIN_HEIGHT), MAX_HEIGHT)

\* Every chunk is taken at the full chunk height.
ChunkHeight_Full(finalHeight, capturedHeight) == CHUNK_HEIGHT

\* const height = Math.min(CHUNK_HEIGHT, finalHeight - capturedHeight)
ChunkHeight(finalHeight, capturedHeight) ==
  Min(CHUNK_HEIGHT, finalHeight - capturedHeight)

\* finally { if (page) await page.close(); } without the close
ClosePage_Leak(open, hasPage) == open

\* finally { if (page) await page.close(); }
ClosePage(open, hasPage) == IF hasPage THEN open - 1 ELSE open

\* The outer catch lets the exception through to the caller.
PupReturnNull_Rethrow ==
  /\ pResult' = "raised"
  /\ pOpenPages' = ClosePage(pOpenPages, pPage)
  /\ pPc' = "returned"

\* catch (error) { return null } finally { close }: the call ends with no result.
PupReturnNull ==
  /\ pResult' = "null"
  /\ pOpenPages' = ClosePage(pOpenPages, pPage)
  /\ pPc' = "returned"

\* The crawl calls processBizinfoPage(workingBrowser, item.url, item.sourceId).
PupCall ==
  /\ pPc \in {"idle", "returned"}
  /\ pCalls < MaxPupCalls
  /\ pPc' = "newPage"
  /\ pPage' = FALSE
  /\ pNavAttempt' = 0
  /\ pViewer' = FALSE
  /\ pRound' = 0
  /\ pFinalHeight' = 0
  /\ pCaptured' = 0
  /\ pShots' = <<>>
  /\ pResult' = NoVal
  /\ pVisionArg' = NotCalled
  /\ pCalls' = pCalls + 1
  /\ pRaised' = "none"
  /\ UNCHANGED <<pOpenPages, pOpened>>
  /\ UNCHANGED nonPupVars

\* page = await browser.newPage(); await page.setViewport(...)
PupNewPage ==
  /\ pPc = "newPage"
  /\ \E out \in {"ok", "newPageThrows", "setViewportThrows"} :
       CASE out = "ok" ->
              /\ pPage' = TRUE
              /\ pOpenPages' = pOpenPages + 1
              /\ pOpened' = pOpened + 1
              /\ pPc' = "goto"
              /\ UNCHANGED <<pResult, pRaised>>
         [] out = "newPageThrows" ->
              \* page is still null when the finally block runs
              /\ pResult' = "null"
              /\ pOpenPages' = ClosePage(pOpenPages, FALSE)
              /\ pPc' = "returned"
              /\ pRaised' = "newPage"
              /\ UNCHANGED <<pPage, pOpened>>
         [] out = "setViewportThrows" ->
              /\ pPage' = TRUE
              /\ pOpened' = pOpened + 1
              /\ pResult' = "null"
              /\ pOpenPages' = ClosePage(pOpenPages + 1, TRUE)
              /\ pPc' = "returned"
              /\ pRaised' = "newPage"
  /\ UNCHANGED <<pNavAttempt, pViewer, pRound, pFinalHeight, pCaptured, pShots,
                 pVisionArg, pCalls>>
  /\ UNCHANGED nonPupVars

\* One iteration of the navigation loop: page.goto with up to 3 attempts.
PupGoto ==
  /\ pPc = "goto"
  /\ pNavAttempt < NAV_ATTEMPTS
  /\ \E ok \in BOOLEAN :
       IF ok
         THEN \* break
              /\ pPc' = "findViewer"
              /\ UNCHANGED <<pNavAttempt, pResult, pOpenPages, pRaised>>
         ELSE IF pNavAttempt = NAV_ATTEMPTS - 1
           THEN \* if (attempt === 2) throw e
                /\ PupReturnNull
                /\ pRaised' = "nav"
                /\ UNCHANGED pNavAttempt
           ELSE /\ pNavAttempt' = pNavAttempt + 1
                /\ UNCHANGED <<pPc, pResult, pOpenPages, pRaised>>
  /\ UNCHANGED <<pPage, pViewer, pRound, pFinalHeight, pCaptured, pShots,
                 pVisionArg, pOpened, pCalls>>
  /\ UNCHANGED nonPupVars

\* Best-effort wait for .view_cont (its failure is swallowed), then the poll
\* of page.frames() for a viewer frame, up to 40 s.
PupFindViewer ==
  /\ pPc = "findViewer"
  /\ \E found \in BOOLEAN :
       /\ pViewer' = found
       /\ pPc' = IF found THEN "viewerBody" ELSE "fallback"
  /\ UNCHANGED <<pPage, pOpenPages, pNavAttempt, pRound, pFinalHeight, pCaptured,
                 pShots, pResult, pVisionArg, pOpened, pCalls, pRaised>>
  /\ UNCHANGED nonPupVars

\* viewerFrame.waitForSelector('body'), the best-effort content wait and the
\* first scroll; an exception is caught by the inner try, which logs it.
PupViewerBody ==
  /\ pPc = "viewerBody"
  /\ \E ok \in BOOLEAN :
       IF ok
         THEN /\ pFinalHeight' = INITIAL_HEIGHT
              /\ pRound' = 0
              /\ pPc' = "measure"
              /\ UNCHANGED pRaised
         ELSE /\ pPc' = "check"
              /\ pRaised' = "viewer"
              /\ UNCHANGED <<pFinalHeight, pRound>>
  /\ UNCHANGED <<pPage, pOpenPages, pNavAttempt, pViewer, pCaptured, pShots,
                 pResult, pVisionArg, pOpened, pCalls>>
  /\ UNCHANGED nonPupVars

\* One round of the height measurement loop.
PupMeasure ==
  /\ pPc = "measure"
  /\ pRound < MEASURE_ROUNDS
  /\ \/ \E currentHeight \in MeasuredHeights :
          /\ UNCHANGED pRaised
          /\ IF currentHeight > pFinalHeight
               THEN /\ pFinalHeight' = currentHeight
                    /\ pRound' = pRound + 1
                    /\ UNCHANGED pPc
               ELSE IF currentHeight > BREAK_HEIGHT
                 THEN \* break
                      /\ pPc' = "prepare"
                      /\ UNCHANGED <<pFinalHeight, pRound>>
                 ELSE /\ pRound' = pRound + 1
                      /\ UNCHANGED <<pFinalHeight, pPc>>
     \/ \* viewerFrame.evaluate throws: inner catch
        /\ pPc' = "check"
        /\ pRaised' = "viewer"
        /\ UNCHANGED <<pFinalHeight, pRound>>
  /\ UNCHANGED <<pPage, pOpenPages, pNavAttempt, pViewer, pCaptured, pShots,
                 pResult, pVisionArg, pOpened, pCalls>>
  /\ UNCHANGED nonPupVars

\* The measurement loop ran its 5 rounds.
PupMeasureDone ==
  /\ pPc = "measure"
  /\ pRound >= MEASURE_ROUNDS
  /\ pPc' = "prepare"
  /\ UNCHANGED <<pPage, pOpenPages, pNavAttempt, pViewer, pRound, pFinalHeight,
                 pCaptured, pShots, pResult, pVisionArg, pOpened, pCalls, pRaised>>
  /\ UNCHANGED nonPupVars

\* Clamp the height, read the width, force the scroll pass, resize the
\* viewport and look up the viewer body element.
PupPrepare ==
  /\ pPc = "prepare"
  /\ pFinalHeight' = ClampHeight(pFinalHeight)
  /\ \E out \in {"ok", "throws", "noBody"} :
       /\ pPc' = IF out = "ok" THEN "chunk" ELSE "check"
       /\ pRaised' = IF out = "throws" THEN "viewer" ELSE pRaised
  /\ pCaptured' = 0
  /\ UNCHANGED <<pPage, pOpenPages, pNavAttempt, pViewer, pRound, pShots,
                 pResult, pVisionArg, pOpened, pCalls>>
  /\ UNCHANGED nonPupVars

\* The chunk loop without its cap on the number of chunks.
PupChunk_NoCap ==
  /\ pPc = "chunk"
  /\ IF pCaptured < pFinalHeight
       THEN LET height == ChunkHeight(pFinalHeight, pCaptured) IN
            \/ /\ pShots' = Append(pShots, [kind |-> "chunk", y |-> pCaptured, h |-> height])
               /\ pCaptured' = pCaptured + height
               /\ UNCHANGED <<pPc, pRaised>>
            \/ /\ pPc' = "check"
               /\ pRaised' = "viewer"
               /\ UNCHANGED <<pShots, pCaptured>>
       ELSE /\ pPc' = "check"
            /\ UNCHANGED <<pShots, pCaptured, pRaised>>
  /\ UNCHANGED <<pPage, pOpenPages, pNavAttempt, pViewer, pRound, pFinalHeight,
                 pResult, pVisionArg, pOpened, pCalls>>
  /\ UNCHANGED nonPupVars

\* One evaluation of the chunk loop: while (capturedHeight < finalHeight).
PupChunk ==
  /\ pPc = "chunk"
  /\ IF pCaptured < pFinalHeight
       THEN IF Len(pShots) >= MAX_CHUNKS
              THEN \* break
                   /\ pPc' = "check"
                   /\ UNCHANGED <<pShots, pCaptured, pRaised>>
              ELSE LET height == ChunkHeight(pFinalHeight, pCaptured) IN
                   \/ \* scroll, wait, screenshot with clip (y = capturedHeight)
                      /\ pShots' = Append(pShots, [kind |-> "chunk", y |-> pCaptured, h |-> height])
                      /\ pCaptured' = pCaptured + height
                      /\ UNCHANGED <<pPc, pRaised>>
                   \/ \* the scroll or the screenshot throws: inner catch
                      /\ pPc' = "check"
                      /\ pRaised' = "viewer"
                      /\ UNCHANGED <<pShots, pCaptured>>
       ELSE /\ pPc' = "check"
            /\ UNCHANGED <<pShots, pCaptured, pRaised>>
  /\ UNCHANGED <<pPage, pOpenPages, pNavAttempt, pViewer, pRound, pFinalHeight,
                 pResult, pVisionArg, pOpened, pCalls>>
  /\ UNCHANGED nonPupVars

\* if (!viewerFrame && !screenshotBuffer): capture .view_cont (or body) as one
\* image. Reached only when no viewer frame was found.
PupFallback ==
  /\ pPc = "fallback"
  /\ \E out \in {"shot", "noElement", "throws"} :
       CASE out = "shot" ->
              /\ pShots' = Append(pShots, [kind |-> "content", y |-> 0, h |-> 0])
              /\ pPc' = "check"
              /\ UNCHANGED <<pResult, pOpenPages, pRaised>>
         [] out = "noElement" ->
              /\ pPc' = "check"
              /\ UNCHANGED <<pShots, pResult, pOpenPages, pRaised>>
         [] out = "throws" ->
              \* page.$ or contentElement.screenshot throws: outer catch
              /\ PupReturnNull
              /\ pRaised' = "fallback"
              /\ UNCHANGED pShots
  /\ UNCHANGED <<pPage, pNavAttempt, pViewer, pRound, pFinalHeight, pCaptured,
                 pVisionArg, pOpened, pCalls>>
  /\ UNCHANGED nonPupVars

\* if (screenshots.length === 0) throw; else extractTargetFromImage(screenshots),
\* which returns a record or null and never throws; then the finally block.
PupFinish ==
  /\ pPc = "check"
  /\ IF Len(pShots) = 0
       THEN /\ PupReturnNull
            /\ UNCHANGED pVisionArg
       ELSE /\ pVisionArg' = [called |-> TRUE, chunks |-> pShots]
            /\ \E r \in {"null", "target"} : pResult' = r
            /\ pOpenPages' = ClosePage(pOpenPages, pPage)
            /\ pPc' = "returned"
  /\ UNCHANGED <<pPage, pNavAttempt, pViewer, pRound, pFinalHeight, pCaptured,
                 pShots, pOpened, pCalls, pRaised>>
  /\ UNCHANGED nonPupVars

NextPup ==
  \/ PupCall
  \/ PupNewPage
  \/ PupGoto
  \/ PupFindViewer
  \/ PupViewerBody
  \/ PupMeasure
  \/ PupMeasureDone
  \/ PupPrepare
  \/ PupChunk
  \/ PupFallback
  \/ PupFinish

\* C9: every tab opened by processBizinfoPage is closed by the time it
\* returns, whatever the outcome (result, no result, internal exception), so
\* that over a pass at most one tab is open at any time.
Thm_C9_PageClosedOnReturn ==
  /\ pPc \in {"idle", "returned"} => pOpenPages = 0
  /\ pOpenPages <= 1
  /\ pPc \notin {"idle", "returned", "newPage"} => pOpenPages = 1

\* The second call of a pass ends with no result after navigation failed on
\* all attempts, the first one having opened a tab as well.
Wit_C9_ClosedAfterInternalRaise ==
  /\ pPc = "returned"
  /\ pCalls = 2
  /\ pOpened = 2
  /\ pResult = "null"
  /\ pNavAttempt = NAV_ATTEMPTS - 1
  /\ pOpenPages = 0

\* C10: whatever the measured content height, the viewer capture produces at
\* most 6 chunks; capture stops at the cap even if content remains uncaptured.
Thm_C10_ChunkCap ==
  /\ Len(pShots) <= MAX_CHUNKS
  /\ pVisionArg.called => Len(pVisionArg.chunks) <= MAX_CHUNKS
  /\ pCaptured <= MAX_CHUNKS * CHUNK_HEIGHT

\* Six chunks were captured and handed on while 2000 px remain uncaptured.
Wit_C10_CapReachedContentLeft ==
  /\ pPc = "returned"
  /\ pVisionArg.called
  /\ Len(pVisionArg.chunks) = MAX_CHUNKS
  /\ pFinalHeight = MAX_HEIGHT
  /\ pCaptured = MAX_CHUNKS * CHUNK_HEIGHT
  /\ pCaptured < pFinalHeight

\* The images taken from the viewer, and those taken of the content element.
ViewerChunks == {i \in 1..Len(pShots) : pShots[i].kind = "chunk"}
ContentShots == {i \in 1..Len(pShots) : pShots[i].kind = "content"}

\* C11: if a viewer frame was found but a step of the viewer capture raised
\* before any chunk was produced, the call degrades to the next tier: by its
\* return it has captured the primary content element as a single image.
Cex_C11_ViewerRaiseDegrades ==
  pPc = "returned" /\ pViewer /\ pRaised = "viewer" /\ ViewerChunks = {} =>
    /\ Cardinality(ContentShots) = 1
    /\ pVisionArg.called

\* The chunk list is in capture order: it starts at the top and each chunk
\* begins where the one before it ended.
Ordered(chunks) ==
  /\ chunks[1].y = 0
  /\ \A i \in 1..(Len(chunks) - 1) : chunks[i + 1].y = chunks[i].y + chunks[i].h

RECURSIVE SumHeights(_)
SumHeights(chunks) ==
  IF chunks = <<>> THEN 0 ELSE Head(chunks).h + SumHeights(Tail(chunks))

\* The viewer capture ran to the end of its chunk loop without an exception.
ViewerCaptureDone ==
  /\ pPc \in {"check", "returned"}
  /\ pViewer
  /\ pRaised = "none"
  /\ ViewerChunks # {}

NullVal == "null"
YES == "true"
NO == "false"

\* JavaScript truthiness of a value: !v
Falsy(v) == v \in {NoVal, NullVal, "", NO}

\* a || b
OrElse(a, b) == IF Falsy(a) THEN b ELSE a

(***************************************************************************)
(* LLM extraction client (extract-target.ts)                               *)
(***************************************************************************)
Null == [isNull |-> TRUE]        \* the function returned null
Garbage == [garbage |-> TRUE]    \* a response text JSON.parse rejects
Raises == [raises |-> TRUE]      \* generateContent rejects (or times out)
JsonNull == [jsonNull |-> TRUE]  \* the response text "null": JSON.parse yields null

SENTINEL_ANY == "mugwan"          \* '무관'
SENTINEL_NATIONWIDE == "jeonguk"  \* '전국'
SENTINEL_ALL_FIELDS == "jeonbunya" \* '전분야'

TargetFields ==
  {"aiSummary", "companyAge", "targetRegion", "targetAge", "targetIndustry",
   "exclusionDetail"}

\* Response texts that parse as JSON: every field filled, targetRegion
\* missing and companyAge blank, and every field blank.
JsonResponses(tag) ==
  { [f \in TargetFields |-> tag],
    [f \in TargetFields |->
       IF f = "targetRegion" THEN NoVal ELSE IF f = "companyAge" THEN "" ELSE tag],
    [f \in TargetFields |-> ""] }

LlmReplies(tag) == JsonResponses(tag) \cup {Garbage, Raises}

\* parseLlmResponse with '' in place of every default.
ParseLlmResponse_NoDefaults(raw) ==
  IF raw = Garbage \/ raw = JsonNull
    THEN [f \in TargetFields |-> ""]
    ELSE [f \in TargetFields |-> OrElse(raw[f], "")]

\* parseLlmResponse(text)
ParseLlmResponse(raw) ==
  IF raw = Garbage \/ raw = JsonNull
    THEN \* JSON.parse throws, or reading a property of null throws: catch
         [f \in TargetFields |-> ""]
    ELSE [aiSummary |-> OrElse(raw.aiSummary, ""),
          companyAge |-> OrElse(raw.companyAge, SENTINEL_ANY),
          targetRegion |-> OrElse(raw.targetRegion, SENTINEL_NATIONWIDE),
          targetAge |-> OrElse(raw.targetAge, SENTINEL_ANY),
          targetIndustry |-> OrElse(raw.targetIndustry, SENTINEL_ALL_FIELDS),
          exclusionDetail |-> OrElse(raw.exclusionDetail, "")]

\* extractApplicationTarget without its try/catch: a rejected generation
\* call reaches the caller.
ExtractApplicationTarget_NoCatch(apiKey, eligibilityText, descriptionText, reply) ==
  IF ~apiKey THEN Null
  ELSE IF Falsy(eligibilityText) /\ Falsy(descriptionText) THEN Null
  ELSE IF reply = Raises THEN Raises
  ELSE ParseLlmResponse(reply)

\* extractApplicationTarget(eligibilityText, descriptionText); reply is what
\* the generation endpoint does if it is called.
ExtractApplicationTarget(apiKey, eligibilityText, descriptionText, reply) ==
  IF ~apiKey THEN Null
  ELSE IF Falsy(eligibilityText) /\ Falsy(descriptionText) THEN Null
  ELSE IF reply = Raises THEN Null
  ELSE ParseLlmResponse(reply)

\* extractTargetFromImage(images, mimeType)
ExtractTargetFromImage(apiKey, reply) ==
  IF ~apiKey THEN Null
  ELSE IF reply = Raises THEN Null
  ELSE ParseLlmResponse(reply)

\* An LLM call was made and its response parsed as the structured result.
ParsedOk(apiKey, hasInput, reply) ==
  apiKey /\ hasInput /\ reply \notin {Raises, Garbage, JsonNull}

\* target.<field>, undefined when the object has no such key
Field(target, f) == IF f \in DOMAIN target THEN target[f] ELSE NoVal

\* extractApplicationTarget reaches model.generateContent(...)
CallsEndpoint(apiKey, eligibilityText, descriptionText) ==
  apiKey /\ ~(Falsy(eligibilityText) /\ Falsy(descriptionText))

\* The fields parseLlmResponse defaults to a sentinel, and their sentinels.
SentinelFields == {"companyAge", "targetRegion", "targetAge", "targetIndustry"}
Sentinel(f) ==
  CASE f = "targetRegion" -> SENTINEL_NATIONWIDE
    [] f = "targetIndustry" -> SENTINEL_ALL_FIELDS
    [] OTHER -> SENTINEL_ANY

\* JSON objects a response text can hold: each sentinel field missing,
\* blank or filled; the two free-text fields filled.
JsonObjects ==
  {[f \in TargetFields |-> IF f \in SentinelFields THEN o[f] ELSE "T"] :
     o \in [SentinelFields -> {NoVal, "", "T"}]}

\* What result.response.text() can be, or the call rejecting.
ResponseTexts == JsonObjects \cup {JsonNull, Garbage}
EndpointReplies == ResponseTexts \cup {Raises}

\* The arguments of one call into the client and its environment.
LlmInputs ==
  [apiKey : BOOLEAN, eligibilityText : {"", "E"}, descriptionText : {NoVal, "", "D"},
   reply : EndpointReplies]

NoOutput == [pending |-> TRUE]

InitLlmVars ==
  /\ lPc = "idle"
  /\ lOp = "none"
  /\ lIn \in LlmInputs
  /\ lOut = NoOutput
  /\ lEndpointCalls = 0

IdleLlmInput ==
  [apiKey |-> FALSE, eligibilityText |-> "", descriptionText |-> NoVal, reply |-> Raises]

\* No call into the client is under study.
InitLlmIdle ==
  /\ lPc = "none"
  /\ lOp = "none"
  /\ lIn = IdleLlmInput
  /\ lOut = NoOutput
  /\ lEndpointCalls = 0

\* await extractApplicationTarget(eligibilityText, descriptionText)
LlmExtractText ==
  /\ lPc = "idle"
  /\ lOp' = "text"
  /\ lOut' = ExtractApplicationTarget(lIn.apiKey, lIn.eligibilityText,
                                      lIn.descriptionText, lIn.reply)
  /\ lEndpointCalls' =
       IF CallsEndpoint(lIn.apiKey, lIn.eligibilityText, lIn.descriptionText)
         THEN lEndpointCalls + 1 ELSE lEndpointCalls
  /\ lPc' = "done"
  /\ UNCHANGED lIn
  /\ UNCHANGED nonLlmVars

\* await extractTargetFromImage(images, mimeType)
LlmExtractImage ==
  /\ lPc = "idle"
  /\ lOp' = "image"
  /\ lOut' = ExtractTargetFromImage(lIn.apiKey, lIn.reply)
  /\ lEndpointCalls' = IF lIn.apiKey THEN lEndpointCalls + 1 ELSE lEndpointCalls
  /\ lPc' = "done"
  /\ UNCHANGED lIn
  /\ UNCHANGED nonLlmVars

\* parseLlmResponse(text) on a response text
LlmParse ==
  /\ lPc = "idle"
  /\ lIn.reply \in ResponseTexts
  /\ lOp' = "parse"
  /\ lOut' = ParseLlmResponse(lIn.reply)
  /\ lPc' = "done"
  /\ UNCHANGED <<lIn, lEndpointCalls>>
  /\ UNCHANGED nonLlmVars

NextLlm ==
  \/ LlmExtractText
  \/ LlmExtractImage
  \/ LlmParse

\* C13: when the response text cannot be parsed as JSON, parseLlmResponse
\* returns (it does not raise) the record of the sentinel defaults it uses
\* on success, not empty strings.
Cex_C13_ParseFailureSentinels ==
  lPc = "done" /\ lOp = "parse" /\ lIn.reply = Garbage =>
    \A f \in SentinelFields : lOut[f] = Sentinel(f)

\* What C14 asks of the record returned for the response object raw.
DefaultedOrKept(raw, out) ==
  \A f \in SentinelFields :
    out[f] = IF Field(raw, f) \in {NoVal, ""} THEN Sentinel(f) ELSE Field(raw, f)

Thm_C15_SoftFailure ==
  lPc = "done" /\ lOp = "text" =>
    /\ ~lIn.apiKey => lOut = Null /\ lEndpointCalls = 0
    /\ Falsy(lIn.eligibilityText) /\ Falsy(lIn.descriptionText) =>
         lOut = Null /\ lEndpointCalls = 0
    /\ lEndpointCalls = 1 /\ lIn.reply = Raises => lOut = Null
    /\ lOut # Raises

\* With a credential and an eligibility text the generation call was made,
\* it raised, and the caller got null.
Wit_C15_CallRaisesNull ==
  /\ lPc = "done" /\ lOp = "text"
  /\ lIn.apiKey /\ lIn.eligibilityText = "E" /\ lIn.descriptionText = NoVal
  /\ lIn.reply = Raises
  /\ lEndpointCalls = 1
  /\ lOut = Null

(***************************************************************************)
(* Records                                                                 *)
(***************************************************************************)
\* The fields of detailData: DetailPageData and what crawlBizinfo adds to it.
DetailFields ==
  {"title", "description", "eligibility", "applicationStart", "applicationEnd",
   "targetRegion", "supportField", "fundingAmount", "companyAge", "targetAge",
   "targetIndustry", "llmProcessed"}

\* let detailData = {}
EmptyDetail == [f \in DetailFields |-> NoVal]

\* The columns an upsert payload can set.
PayloadFields == DetailFields \cup {"applicationTarget"}

StoreFields == PayloadFields \cup {"source", "sourceId", "createdAt", "updatedAt"}

\* A list item as parseListPage yields it.
ListItem(id, start, end) ==
  [sourceId |-> id, title |-> "L", applicationStart |-> start, applicationEnd |-> end]

\* items = [{ sourceId: targetId, url, title: 'Target Debug', category: 'Debug' }]
TargetItem(id) ==
  [sourceId |-> id, title |-> "Target Debug", applicationStart |-> NoVal,
   applicationEnd |-> NoVal]

\* What parseDetailPage can extract from a detail page.
DetailPage(text, period, region, field) ==
  [EmptyDetail EXCEPT !.title = "D",
                      !.description = text,
                      !.eligibility = text,
                      !.applicationStart = period,
                      !.applicationEnd = period,
                      !.targetRegion = region,
                      !.supportField = field,
                      !.fundingAmount = field]

\* { ...item fields, ...detailData }: a key of detailData wins when present
Spread(item, d, f) ==
  IF d[f] # NoVal THEN d[f] ELSE IF f \in DOMAIN item THEN item[f] ELSE NoVal

(***************************************************************************)
(* Fallback / merge policy of crawlBizinfo                                 *)
(***************************************************************************)
\* The keyword-inferred value is dropped.
KeywordMerge_Skipped(d, keyword) == d

\* if (keywordSupportField) detailData.supportField = keywordSupportField
KeywordMerge(d, keyword) ==
  IF ~Falsy(keyword) THEN [d EXCEPT !.supportField = keyword] ELSE d

\* if (textTarget) { ... }
TextMerge(d, textTarget) ==
  IF textTarget = Null
    THEN d
    ELSE [d EXCEPT !.companyAge = textTarget.companyAge,
                   !.targetRegion = textTarget.targetRegion,
                   !.targetAge = textTarget.targetAge,
                   !.targetIndustry = textTarget.targetIndustry,
                   !.supportField =
                      IF Falsy(d.supportField) /\ ~Falsy(Field(textTarget, "supportField"))
                        THEN Field(textTarget, "supportField")
                        ELSE d.supportField,
                   !.llmProcessed = YES]

\* const missingCritical = !companyAge || !targetRegion || !applicationStart || !applicationEnd
MissingCritical(d) ==
  \/ Falsy(d.companyAge)
  \/ Falsy(d.targetRegion)
  \/ Falsy(d.applicationStart)
  \/ Falsy(d.applicationEnd)

\* if (usePuppeteer && workingBrowser && missingCritical)
CallVision(opt, workingBrowser, d) ==
  opt.usePuppeteer /\ workingBrowser /\ MissingCritical(d)

\* processBizinfoPage as the crawl sees it: no result when the capture
\* produced no image, else what extractTargetFromImage returns.
ProcessBizinfoPage(apiKey, capture, reply) ==
  IF capture = "none" THEN Null ELSE ExtractTargetFromImage(apiKey, reply)

\* The vision result replaces the four fields even where it is empty.
VisionMerge_Replace(d, pupTarget) ==
  IF pupTarget = Null
    THEN d
    ELSE [d EXCEPT !.companyAge = pupTarget.companyAge,
                   !.targetRegion = pupTarget.targetRegion,
                   !.targetAge = pupTarget.targetAge,
                   !.targetIndustry = pupTarget.targetIndustry,
                   !.llmProcessed = YES]

\* if (puppeteerTarget) { ... }
VisionMerge(d, pupTarget) ==
  IF pupTarget = Null
    THEN d
    ELSE [d EXCEPT !.companyAge = IF ~Falsy(pupTarget.companyAge) THEN pupTarget.companyAge ELSE @,
                   !.targetRegion = IF ~Falsy(pupTarget.targetRegion) THEN pupTarget.targetRegion ELSE @,
                   !.targetAge = IF ~Falsy(pupTarget.targetAge) THEN pupTarget.targetAge ELSE @,
                   !.targetIndustry = IF ~Falsy(pupTarget.targetIndustry) THEN pupTarget.targetIndustry ELSE @,
                   !.llmProcessed = YES]

\* The detail branch of crawlBizinfo for one item: everything between the
\* detail fetch and the upsert. in: what the detail page, the keyword
\* inference, the text LLM, the capture and the vision LLM yield.
BizinfoDetail(opt, workingBrowser, in) ==
  LET d1 == KeywordMerge(in.detail, in.keyword)
      textTarget == ExtractApplicationTarget(opt.apiKey, OrElse(d1.eligibility, ""),
                                             OrElse(d1.description, ""), in.text)
      d2 == TextMerge(d1, textTarget)
      vision == CallVision(opt, workingBrowser, d2)
      pupTarget == ProcessBizinfoPage(opt.apiKey, in.capture, in.vision)
      d3 == IF vision THEN VisionMerge(d2, pupTarget) ELSE d2
  IN [data |-> d3,
      afterText |-> d2,
      visionCalls |-> IF vision THEN 1 ELSE 0,
      llm |-> textTarget # Null \/ (vision /\ pupTarget # Null),
      parsed |-> \/ ParsedOk(opt.apiKey, ~(Falsy(d1.eligibility) /\ Falsy(d1.description)), in.text)
                 \/ vision /\ in.capture # "none" /\ ParsedOk(opt.apiKey, TRUE, in.vision)]

(***************************************************************************)
(* Upsert payloads and the store                                           *)
(***************************************************************************)
NoPayload == [f \in PayloadFields |-> NoVal]

\* const finalTitle = (item.title === 'Target Debug' && detailData.title) ? detailData.title : item.title
FinalTitle(item, d) ==
  IF item.title = "Target Debug" /\ ~Falsy(d.title) THEN d.title ELSE item.title

\* crawlBizinfo: update: { ... }
BizinfoUpdate(item, d) ==
  [NoPayload EXCEPT
     !.title = FinalTitle(item, d),
     !.applicationStart = Spread(item, d, "applicationStart"),
     !.applicationEnd = Spread(item, d, "applicationEnd"),
     !.description = d.description,
     !.eligibility = d.eligibility,
     !.companyAge = OrElse(d.companyAge, Spread(item, d, "companyAge")),
     !.targetRegion = OrElse(d.targetRegion, Spread(item, d, "targetRegion")),
     !.targetAge = d.targetAge,
     !.targetIndustry = d.targetIndustry,
     !.supportField = d.supportField,
     !.fundingAmount = d.fundingAmount,
     !.llmProcessed = OrElse(d.llmProcessed, NO),
     !.applicationTarget = NullVal]

\* crawlBizinfo: create: { ... }
BizinfoCreate(item, d) ==
  [BizinfoUpdate(item, d) EXCEPT !.companyAge = d.companyAge]

\* crawlKStartup: update: { ... } and create: { ... } set the same columns
\* (update also sets updatedAt: new Date()).
KStartupPayload(item, d) ==
  [NoPayload EXCEPT
     !.title = Spread(item, d, "title"),
     !.applicationStart = d.applicationStart,
     !.applicationEnd = Spread(item, d, "applicationEnd"),
     !.description = d.description,
     !.eligibility = d.eligibility,
     !.companyAge = d.companyAge,
     !.targetRegion = d.targetRegion,
     !.targetAge = d.targetAge,
     !.supportField = d.supportField]

\* Column defaults of the supportProgram table.
ColumnDefault(f) == IF f = "llmProcessed" THEN NO ELSE NullVal

\* The row an upsert creates: createdAt and updatedAt are set by the table.
NewRecord(src, id, create, now) ==
  [f \in StoreFields |->
     CASE f = "source" -> src
       [] f = "sourceId" -> id
       [] f = "createdAt" -> now
       [] f = "updatedAt" -> now
       [] OTHER -> IF create[f] = NoVal THEN ColumnDefault(f) ELSE create[f]]

\* The row an update leaves: an undefined value leaves its column alone,
\* updatedAt is bumped.
UpdatedRecord(r, update, now) ==
  [f \in StoreFields |->
     CASE f = "updatedAt" -> now
       [] f \in PayloadFields -> IF update[f] = NoVal THEN r[f] ELSE update[f]
       [] OTHER -> r[f]]

\* An insert in place of the upsert: no lookup by (source, sourceId).
Upsert_AlwaysCreate(st, src, id, create, update, now) ==
  st \cup {NewRecord(src, id, create, now)}

\* prisma.supportProgram.upsert({ where: { source_sourceId }, update, create })
Upsert(st, src, id, create, update, now) ==
  IF \E r \in st : r.source = src /\ r.sourceId = id
    THEN {IF r.source = src /\ r.sourceId = id THEN UpdatedRecord(r, update, now) ELSE r :
            r \in st}
    ELSE st \cup {NewRecord(src, id, create, now)}

(***************************************************************************)
(* The source sites and the options of a pass                              *)
(***************************************************************************)
\* Math.min(maxPage, 10)
PAGE_CEILING == 10

\* getTotalPages without the ceiling.
GetTotalPages_NoCeiling(advertised) == Max(1, advertised)

\* getTotalPages(html): the largest page number the pagination shows, at
\* least 1, at most 10.
GetTotalPages(advertised) == Min(Max(1, advertised), PAGE_CEILING)

\* A site with two list pages per source, three items on the first; item b
\* is listed on both pages.
\* Bizinfo rows may carry the application period, K-Startup rows the
\* closing date only.
LoopSite ==
  [variety |-> "plain",
   advertised |-> 2,
   pages |-> [src \in Sources |->
     IF src = "bizinfo"
       THEN << <<ListItem("a", "L", "L"), ListItem("b", NoVal, NoVal),
                 ListItem("c", "L", "L")>>,
               <<ListItem("b", NoVal, NoVal), ListItem("d", "L", "L")>> >>
       ELSE << <<ListItem("a", NoVal, "L"), ListItem("b", NoVal, NoVal),
                 ListItem("c", NoVal, "L")>>,
               <<ListItem("b", NoVal, NoVal), ListItem("d", NoVal, "L")>> >>]]

\* A site whose list pages all list the one item x and whose pagination
\* shows 50 pages.
ItemSite(start, end) ==
  [variety |-> "full",
   advertised |-> 50,
   pages |-> [src \in Sources |->
     IF src = "bizinfo"
       THEN << <<ListItem("x", start, end)>>, <<ListItem("x", start, end)>> >>
       ELSE << <<ListItem("x", NoVal, end)>>, <<ListItem("x", NoVal, end)>> >>]]

ItemSites == {ItemSite("L", "L"), ItemSite(NoVal, NoVal)}

\* A site with three list pages of one item each.
PagedSite ==
  [variety |-> "paged",
   advertised |-> 3,
   pages |-> [src \in Sources |->
     IF src = "bizinfo"
       THEN << <<ListItem("a", "L", "L")>>, <<ListItem("b", "L", "L")>>,
               <<ListItem("c", "L", "L")>> >>
       ELSE << <<ListItem("a", NoVal, "L")>>, <<ListItem("b", NoVal, "L")>>,
               <<ListItem("c", NoVal, "L")>> >>]]

\* CrawlOptions, whether the caller passed a browser, and whether
\* GEMINI_API_KEY is set in the environment.
Options(site) ==
  IF site.variety = "plain"
    THEN [src : {"bizinfo"}, maxPages : {0, 1, 2}, fetchDetails : BOOLEAN,
          usePuppeteer : BOOLEAN, browserGiven : BOOLEAN, targetId : {NoVal, "t"},
          limit : {0, 1, 2}, apiKey : {TRUE}]
         \cup
         [src : {"k-startup"}, maxPages : {0, 1, 2}, fetchDetails : BOOLEAN,
          usePuppeteer : {FALSE}, browserGiven : {FALSE}, targetId : {NoVal},
          limit : {0, 1, 2}, apiKey : {TRUE}]
  ELSE IF site.variety = "paged"
    THEN [src : Sources, maxPages : {3}, fetchDetails : BOOLEAN,
          usePuppeteer : {FALSE}, browserGiven : {FALSE}, targetId : {NoVal},
          limit : {0}, apiKey : {TRUE}]
    ELSE [src : {"bizinfo"}, maxPages : {2}, fetchDetails : BOOLEAN,
          usePuppeteer : BOOLEAN, browserGiven : {FALSE}, targetId : {NoVal},
          limit : {0}, apiKey : BOOLEAN]
         \cup
         [src : {"k-startup"}, maxPages : {2}, fetchDetails : BOOLEAN,
          usePuppeteer : {FALSE}, browserGiven : {FALSE}, targetId : {NoVal},
          limit : {0}, apiKey : {TRUE}]

NoOptions ==
  [src |-> "bizinfo", maxPages |-> 1, fetchDetails |-> FALSE, usePuppeteer |-> FALSE,
   browserGiven |-> FALSE, targetId |-> NoVal, limit |-> 0, apiKey |-> TRUE]

\* Detail pages of Bizinfo as parseDetailPage reads them: nothing but the
\* title (the content sits in a viewer), text only, text and period, text
\* and region, everything.
BizinfoDetailPages(variety) ==
  IF variety # "full"
    THEN {DetailPage("D", "D", "D", "D")}
    ELSE {DetailPage(NoVal, NoVal, NoVal, NoVal),
          DetailPage("D", NoVal, NoVal, NoVal),
          DetailPage("D", "D", NoVal, NoVal),
          DetailPage("D", NoVal, "D", NoVal),
          DetailPage("D", "D", "D", "D")}

\* Detail pages of K-Startup as its parseDetailPage reads them.
KStartupDetailPages(variety) ==
  IF variety # "full"
    THEN {[DetailPage("D", "D", "D", "D") EXCEPT !.companyAge = "D", !.targetAge = "D",
                                                 !.fundingAmount = NoVal]}
    ELSE {[DetailPage("D", "D", "D", "D") EXCEPT !.companyAge = "D", !.targetAge = "D",
                                                 !.fundingAmount = NoVal],
          [DetailPage("D", NoVal, NoVal, NoVal) EXCEPT !.fundingAmount = NoVal],
          [DetailPage(NoVal, NoVal, NoVal, NoVal) EXCEPT !.title = NoVal]}

\* What the world hands the detail branch of crawlBizinfo for one item: the
\* parsed detail page, the keyword inference, the text-LLM reply, whether
\* the capture produced images, and the vision-LLM reply.
PlainBizinfoInputs ==
  [detail : BizinfoDetailPages("plain"), keyword : {""},
   text : {[f \in TargetFields |-> "T"]}, capture : {"shots"},
   vision : {[f \in TargetFields |-> "V"]}]

FullBizinfoInputs ==
  {in \in [detail : BizinfoDetailPages("full"), keyword : {"", "K"},
           text : LlmReplies("T"), capture : {"none", "shots"},
           vision : LlmReplies("V")] :
     \* the keyword inference matches substrings of the text
     /\ in.keyword = "K" => ~Falsy(in.detail.description)
     \* without a capture there is no vision reply
     /\ in.capture = "none" => in.vision = Raises}

BizinfoInputs(variety) ==
  IF variety # "full" THEN PlainBizinfoInputs ELSE FullBizinfoInputs

\* crawlKStartup makes no LLM call: only the parsed detail page matters.
KStartupInputs(variety) ==
  [detail : KStartupDetailPages(variety), keyword : {""}, text : {Raises},
   capture : {"none"}, vision : {Raises}]

NoInput ==
  [detail |-> EmptyDetail, keyword |-> "", text |-> Raises, capture |-> "none",
   vision |-> Raises]

\* if (fetchDetails) { ... }
ItemInputs(opt, variety) ==
  IF ~opt.fetchDetails THEN {NoInput}
  ELSE IF opt.src = "bizinfo" THEN BizinfoInputs(variety)
  ELSE KStartupInputs(variety)

\* No CrawlResult yet. In a CrawlResult, errors <<>> stands for undefined.
NoResult == [success |-> FALSE, count |-> 0, errors |-> <<>>]

\* How an item went through the detail branch: the item, detailData after
\* the text-LLM step, the number of calls of processBizinfoPage, and whether
\* an LLM call returned a result for it.
NoLast ==
  [detailed |-> FALSE, item |-> TargetItem(NoVal), afterText |-> EmptyDetail,
   visionCalls |-> 0, llm |-> FALSE]

InitCrawlAt(site) ==
  /\ cPc = "idle"
  /\ cOpt = NoOptions
  /\ cSite = site
  /\ cPage = 0
  /\ cTotalPages = 0
  /\ cItems = <<>>
  /\ cIdx = 0
  /\ cErrors = <<>>
  /\ cSuccessCount = 0
  /\ cTotalProcessed = 0
  /\ cLocalBrowser = "none"
  /\ cGivenBrowser = "none"
  /\ cResult = NoResult
  /\ store = {}
  /\ clock = 0
  /\ cLog = <<>>
  /\ cLast = NoLast
  /\ cUpserts = <<>>
  /\ cParsed = {}

InitCrawlVars == InitCrawlAt(LoopSite)

(***************************************************************************)
(* The tiers of the detail branch of crawlBizinfo, one step each           *)
(***************************************************************************)
\* textTarget with the supportField the model suggested, if any.
WithSupportField(target, suggested) ==
  IF target = Null \/ suggested = NoVal
    THEN target
    ELSE [f \in TargetFields \cup {"supportField"} |->
            IF f = "supportField" THEN suggested ELSE target[f]]

\* One item with its options and what the detail page, the keyword
\* inference, the text LLM, the capture and the vision LLM yield for it.
MergeInputs ==
  {in \in [item : {ListItem("x", "L", "L"), ListItem("x", NoVal, NoVal)},
           usePuppeteer : BOOLEAN, apiKey : BOOLEAN,
           detail : BizinfoDetailPages("full"), keyword : {"", "K"},
           text : LlmReplies("T"), llmField : {NoVal, "S"},
           capture : {"none", "shots"}, vision : LlmReplies("V")] :
     \* the keyword inference matches substrings of the text
     /\ in.keyword = "K" => ~Falsy(in.detail.description)
     \* only a parsed response can suggest a support field
     /\ in.llmField = "S" => in.text \in JsonResponses("T")
     \* without a capture there is no vision reply
     /\ in.capture = "none" => in.vision = Raises}

InitMergeVars ==
  /\ mPc = "parsed"
  /\ mIn \in MergeInputs
  /\ mD = mIn.detail
  /\ mPrev = mIn.detail
  /\ mTarget = Null
  /\ mVision = FALSE
  /\ mStored = NoPayload

IdleMergeInput ==
  [item |-> ListItem("x", NoVal, NoVal), usePuppeteer |-> FALSE, apiKey |-> FALSE,
   detail |-> EmptyDetail, keyword |-> "", text |-> Raises, llmField |-> NoVal,
   capture |-> "none", vision |-> Raises]

\* No item is under study tier by tier.
InitMergeIdle ==
  /\ mPc = "idle"
  /\ mIn = IdleMergeInput
  /\ mD = EmptyDetail
  /\ mPrev = EmptyDetail
  /\ mTarget = Null
  /\ mVision = FALSE
  /\ mStored = NoPayload

\* 0. keyword-based supportField inference
MergeKeyword ==
  /\ mPc = "parsed"
  /\ mPrev' = mD
  /\ mD' = KeywordMerge(mD, mIn.keyword)
  /\ mPc' = "keyword"
  /\ UNCHANGED <<mIn, mTarget, mVision, mStored>>
  /\ UNCHANGED nonMergeVars

\* 1. text LLM
MergeText ==
  /\ mPc = "keyword"
  /\ LET textTarget ==
           WithSupportField(
             ExtractApplicationTarget(mIn.apiKey, OrElse(mD.eligibility, ""),
                                      OrElse(mD.description, ""), mIn.text),
             mIn.llmField)
     IN /\ mTarget' = textTarget
        /\ mD' = TextMerge(mD, textTarget)
  /\ mPrev' = mD
  /\ mPc' = "text"
  /\ UNCHANGED <<mIn, mVision, mStored>>
  /\ UNCHANGED nonMergeVars

\* 2. fallback: Puppeteer vision (the browser is the one the pass holds)
MergeVision ==
  /\ mPc = "text"
  /\ mPrev' = mD
  /\ IF CallVision(mIn, mIn.usePuppeteer, mD)
       THEN LET pupTarget == ProcessBizinfoPage(mIn.apiKey, mIn.capture, mIn.vision)
            IN /\ mVision' = TRUE
               /\ mTarget' = pupTarget
               /\ mD' = VisionMerge(mD, pupTarget)
       ELSE /\ mVision' = FALSE
            /\ mTarget' = Null
            /\ UNCHANGED mD
  /\ mPc' = "vision"
  /\ UNCHANGED <<mIn, mStored>>
  /\ UNCHANGED nonMergeVars

\* The create payload of the upsert.
MergeStore ==
  /\ mPc = "vision"
  /\ mStored' = BizinfoCreate(mIn.item, mD)
  /\ mPc' = "stored"
  /\ UNCHANGED <<mIn, mD, mPrev, mTarget, mVision>>
  /\ UNCHANGED nonMergeVars

NextMerge ==
  \/ MergeKeyword
  \/ MergeText
  \/ MergeVision
  \/ MergeStore

(***************************************************************************)
(* crawlBizinfo / crawlKStartup                                            *)
(***************************************************************************)
\* errors.push(`공고 ${item.sourceId} 처리 실패: ...`)
ItemError(id) == [kind |-> "item", ref |-> id]
\* errors.push(`페이지 ${page} 크롤링 실패: ...`)
PageError(page) == [kind |-> "page", ref |-> page]
\* errors: [`크롤링 실패: ...`]
CrawlError == [kind |-> "crawl", ref |-> 0]

\* const loopMax = targetId ? 1 : totalPages (crawlKStartup has no targetId)
LoopMax(opt, totalPages) ==
  IF opt.src = "bizinfo" /\ opt.targetId # NoVal THEN 1 ELSE totalPages

\* The item loop without its limit check.
LimitReached_Ignored(opt, totalProcessed) == FALSE

\* if (limit && totalProcessed >= limit) break
LimitReached(opt, totalProcessed) == opt.limit # 0 /\ totalProcessed >= opt.limit

\* The items of list page p as the page loop sees them.
ItemsOf(opt, site, p) ==
  IF opt.src = "bizinfo" /\ opt.targetId # NoVal
    THEN <<TargetItem(opt.targetId)>>
    ELSE site.pages[opt.src][p]

\* finally { if (browser) await browser.close(); }  (crawlKStartup has none)
FinallyGiven(given) == IF given = "open" THEN "closed" ELSE given

\* The index the item loop goes to after the catch of a failed item: the
\* loop is abandoned.
AfterItemError_AbandonPage(idx, items) == Len(items) + 1

\* The index the item loop goes to after the catch of a failed item.
AfterItemError(idx, items) == idx + 1

\* await delay(REQUEST_DELAY), when the code reaches it: one more log entry.
WithDelay(log, reached, page) ==
  IF reached THEN Append(log, [ev |-> "delay", page |-> page, idx |-> 0, ok |-> TRUE])
  ELSE log

\* A Bizinfo fetch that fails ends with the sleep after its third attempt
\* (2000 ms * 3) before it throws; a K-Startup fetch throws at once.
WithBackoff(log, src, page) ==
  IF src = "bizinfo"
    THEN Append(log, [ev |-> "backoff", page |-> page, idx |-> 0, ok |-> TRUE])
    ELSE log

\* The outer catch: return { success: false, count, errors: [`크롤링 실패`] },
\* then the finally block.
CrawlAbort(what, page) ==
  /\ cResult' = [success |-> FALSE, count |-> cSuccessCount, errors |-> <<CrawlError>>]
  /\ cGivenBrowser' = FinallyGiven(cGivenBrowser)
  /\ cPc' = "returned"
  /\ cLog' = Append(cLog, [ev |-> what, page |-> page, idx |-> 0, ok |-> FALSE])
  /\ UNCHANGED <<cOpt, cSite, cPage, cTotalPages, cItems, cIdx, cErrors, cSuccessCount,
                 cTotalProcessed, store, cLast, cUpserts, cParsed>>

\* crawlBizinfo(options, browser) / crawlKStartup(options) is called.
CrawlStart ==
  /\ cPc = "idle"
  /\ \E opt \in Options(cSite) :
       /\ cOpt' = opt
       /\ cGivenBrowser' = IF opt.browserGiven THEN "open" ELSE "none"
       /\ cPc' = IF opt.src = "bizinfo" /\ opt.usePuppeteer /\ ~opt.browserGiven
                   THEN "launch" ELSE "firstPage"
  /\ cLocalBrowser' = "none"
  /\ cErrors' = <<>>
  /\ cSuccessCount' = 0
  /\ cTotalProcessed' = 0
  /\ cPage' = 0
  /\ cTotalPages' = 0
  /\ cItems' = <<>>
  /\ cIdx' = 0
  /\ cResult' = NoResult
  /\ cLog' = <<>>
  /\ cLast' = NoLast
  /\ UNCHANGED <<cSite, store, clock, cUpserts, cParsed>>
  /\ UNCHANGED nonCrawlVars

\* localBrowser = await puppeteer.launch(...)
CrawlLaunch ==
  /\ cPc = "launch"
  /\ clock' = clock + 1
  /\ \E ok \in BOOLEAN :
       IF ok
         THEN /\ cLocalBrowser' = "open"
              /\ cPc' = "firstPage"
              /\ cLog' = Append(cLog, [ev |-> "launch", page |-> 0, idx |-> 0, ok |-> TRUE])
              /\ UNCHANGED <<cOpt, cSite, cPage, cTotalPages, cItems, cIdx, cErrors,
                             cSuccessCount, cTotalProcessed, cGivenBrowser, cResult,
                             store, cLast, cUpserts, cParsed>>
         ELSE /\ CrawlAbort("launch", 0)
              /\ UNCHANGED cLocalBrowser
  /\ UNCHANGED nonCrawlVars

\* const firstPageHtml = await fetchListPage(1);
\* const totalPages = Math.min(getTotalPages(firstPageHtml), maxPages);
\* ok: the fetch returned a body (after its own retries, if it has any).
CrawlFirstPage ==
  /\ cPc = "firstPage"
  /\ clock' = clock + 1
  /\ \E ok \in BOOLEAN :
       IF ok
         THEN /\ cTotalPages' = Min(GetTotalPages(cSite.advertised), cOpt.maxPages)
              /\ cPage' = 1
              /\ cPc' = "pageStart"
              /\ cLog' = Append(cLog, [ev |-> "list", page |-> 1, idx |-> 0, ok |-> TRUE])
              /\ UNCHANGED <<cOpt, cSite, cItems, cIdx, cErrors, cSuccessCount,
                             cTotalProcessed, cGivenBrowser, cResult, store, cLast,
                             cUpserts, cParsed>>
         ELSE CrawlAbort("list", 1)
  /\ UNCHANGED cLocalBrowser
  /\ UNCHANGED nonCrawlVars

\* The head of the page loop body: the items of the page, from the target
\* id, from the first page's body, or from a fetch of page p > 1.
CrawlPageStart ==
  /\ cPc = "pageStart"
  /\ cPage <= LoopMax(cOpt, cTotalPages)
  /\ \E ok \in BOOLEAN :
       /\ (cOpt.src = "bizinfo" /\ cOpt.targetId # NoVal) \/ cPage = 1 => ok
       /\ IF ok
            THEN /\ cItems' = ItemsOf(cOpt, cSite, cPage)
                 /\ cIdx' = 1
                 /\ cPc' = "items"
                 /\ cLog' = IF cPage = 1 THEN cLog
                            ELSE Append(cLog, [ev |-> "list", page |-> cPage, idx |-> 0,
                                               ok |-> TRUE])
                 /\ UNCHANGED <<cPage, cErrors>>
            ELSE \* catch (pageError): no inter-page delay, next page
                 /\ cErrors' = Append(cErrors, PageError(cPage))
                 /\ cPage' = cPage + 1
                 /\ cLog' = WithBackoff(Append(cLog, [ev |-> "list", page |-> cPage,
                                                      idx |-> 0, ok |-> FALSE]),
                                        cOpt.src, cPage)
                 /\ UNCHANGED <<cItems, cIdx, cPc>>
  /\ clock' = clock + 1
  /\ UNCHANGED <<cOpt, cSite, cTotalPages, cSuccessCount, cTotalProcessed, cLocalBrowser,
                 cGivenBrowser, cResult, store, cLast, cUpserts, cParsed>>
  /\ UNCHANGED nonCrawlVars

\* One iteration of the item loop: the whole try block for items[idx] and
\* its catch. fetchOk: fetchDetailPage returned a body; dbOk: the upsert
\* resolved; in: what the detail page and the LLM calls yield.
CrawlItem ==
  /\ cPc = "items"
  /\ cIdx <= Len(cItems)
  /\ ~LimitReached(cOpt, cTotalProcessed)
  /\ LET item == cItems[cIdx]
         id == item.sourceId
         workingBrowser == cGivenBrowser = "open" \/ cLocalBrowser = "open"
     IN \E fetchOk \in BOOLEAN, dbOk \in BOOLEAN, in \in ItemInputs(cOpt, cSite.variety) :
          LET r == BizinfoDetail(cOpt, workingBrowser, in)
              d == IF ~cOpt.fetchDetails THEN EmptyDetail
                   ELSE IF cOpt.src = "bizinfo" THEN r.data ELSE in.detail
              create == IF cOpt.src = "bizinfo" THEN BizinfoCreate(item, d)
                        ELSE KStartupPayload(item, d)
              update == IF cOpt.src = "bizinfo" THEN BizinfoUpdate(item, d)
                        ELSE KStartupPayload(item, d)
              fetched == ~cOpt.fetchDetails \/ fetchOk
              llm == cOpt.fetchDetails /\ fetchOk /\ cOpt.src = "bizinfo"
          IN /\ ~cOpt.fetchDetails => fetchOk
             /\ ~fetched => dbOk /\ in = CHOOSE i \in ItemInputs(cOpt, cSite.variety) : TRUE
             /\ cLast' = IF llm
                           THEN [detailed |-> TRUE, item |-> item,
                                 afterText |-> r.afterText, visionCalls |-> r.visionCalls,
                                 llm |-> r.llm]
                           ELSE [NoLast EXCEPT !.item = item]
             /\ cParsed' = IF llm /\ r.parsed THEN cParsed \cup {<<cOpt.src, id>>}
                           ELSE cParsed
             /\ IF fetched /\ dbOk
                  THEN /\ store' = Upsert(store, cOpt.src, id, create, update, clock + 1)
                       /\ cUpserts' = Append(cUpserts, [source |-> cOpt.src, sourceId |-> id,
                                                        at |-> clock + 1])
                       /\ cSuccessCount' = cSuccessCount + 1
                       /\ cTotalProcessed' = cTotalProcessed + 1
                       /\ cIdx' = cIdx + 1
                       /\ cLog' = Append(WithDelay(cLog, cOpt.fetchDetails, cPage),
                                          [ev |-> "item", page |-> cPage, idx |-> cIdx,
                                           ok |-> TRUE])
                       /\ UNCHANGED cErrors
                  ELSE /\ cErrors' = Append(cErrors, ItemError(id))
                       /\ cIdx' = AfterItemError(cIdx, cItems)
                       /\ cLog' = Append(WithDelay(cLog, cOpt.fetchDetails, cPage),
                                          [ev |-> "item", page |-> cPage, idx |-> cIdx,
                                           ok |-> FALSE])
                       /\ UNCHANGED <<store, cUpserts, cSuccessCount, cTotalProcessed>>
  /\ clock' = clock + 1
  /\ UNCHANGED <<cPc, cOpt, cSite, cPage, cTotalPages, cItems, cLocalBrowser, cGivenBrowser,
                 cResult>>
  /\ UNCHANGED nonCrawlVars

\* The item loop ends (no item left, or the limit break), then
\* if (page < totalPages) await delay(REQUEST_DELAY), then page++.
CrawlItemsDone ==
  /\ cPc = "items"
  /\ cIdx > Len(cItems) \/ LimitReached(cOpt, cTotalProcessed)
  /\ cPage' = cPage + 1
  /\ cPc' = "pageStart"
  /\ clock' = IF cPage < cTotalPages THEN clock + 1 ELSE clock
  /\ cLog' = WithDelay(cLog, cPage < cTotalPages, cPage)
  /\ UNCHANGED <<cOpt, cSite, cTotalPages, cItems, cIdx, cErrors, cSuccessCount,
                 cTotalProcessed, cLocalBrowser, cGivenBrowser, cResult, store,
                 cLast, cUpserts, cParsed>>
  /\ UNCHANGED nonCrawlVars

\* The result that reports every pass as a success.
CrawlResultOf_AlwaysSuccess(errors, successCount) ==
  [success |-> TRUE, count |-> successCount, errors |-> errors]

\* { success: errors.length === 0, count: successCount,
\*   errors: errors.length > 0 ? errors : undefined }
CrawlResultOf(errors, successCount) ==
  [success |-> errors = <<>>, count |-> successCount, errors |-> errors]

\* The page loop is over: return the result, then the finally block.
CrawlReturn ==
  /\ cPc = "pageStart"
  /\ cPage > LoopMax(cOpt, cTotalPages)
  /\ cResult' = CrawlResultOf(cErrors, cSuccessCount)
  /\ cGivenBrowser' = FinallyGiven(cGivenBrowser)
  /\ cPc' = "returned"
  /\ UNCHANGED <<cOpt, cSite, cPage, cTotalPages, cItems, cIdx, cErrors, cSuccessCount,
                 cTotalProcessed, cLocalBrowser, store, clock, cLog, cLast, cUpserts,
                 cParsed>>
  /\ UNCHANGED nonCrawlVars

Next ==
  \/ CrawlStart
  \/ CrawlLaunch
  \/ CrawlFirstPage
  \/ CrawlPageStart
  \/ CrawlItem
  \/ CrawlItemsDone
  \/ CrawlReturn

(***************************************************************************)
(* Application periods: parseDate (bizinfo.ts) and the period branch of    *)
(* parseDetailPage (kstartup.ts)                                           *)
(***************************************************************************)
\* A text is a sequence of tokens (white space between tokens is optional):
\* a date written with one separator, '~', '-', or a time of day.
DateToken(y, m, d, sep) == [t |-> "date", y |-> y, m |-> m, d |-> d, sep |-> sep]
Sym(s) == [t |-> s, y |-> 0, m |-> 0, d |-> 0, sep |-> ""]

IsDate(tok, seps) == tok.t = "date" /\ tok.sep \in seps

\* A JavaScript Date: calendar date, time of day, and the zone the fields
\* were given in. NoDate stands for undefined.
NoDate == [y |-> 0, m |-> 0, d |-> 0, hh |-> 0, mm |-> 0, ss |-> 0, zone |-> "none"]

\* new Date(year, monthIndex, day, hours, minutes, seconds): local time
NewDateLocal(year, monthIndex, day, hours, minutes, seconds) ==
  [y |-> year, m |-> monthIndex + 1, d |-> day, hh |-> hours, mm |-> minutes,
   ss |-> seconds, zone |-> "local"]

\* new Date('YYYY-MM-DD'): a date-only string is midnight UTC
NewDateIso(tok) ==
  [y |-> tok.y, m |-> tok.m, d |-> tok.d, hh |-> 0, mm |-> 0, ss |-> 0, zone |-> "utc"]

\* parseDate(dateStr, isEnd) of bizinfo.ts on a string holding the one date tok
ParseDate(tok, isEnd) ==
  IF ~IsDate(tok, {"-", ".", "/"})
    THEN NoDate
    ELSE LET year == tok.y
             month == tok.m - 1
             day == tok.d
         IN IF isEnd THEN NewDateLocal(year, month, day, 23, 59, 59)
            ELSE NewDateLocal(year, month, day, 0, 0, 0)

\* The first place, if any, where
\* /(\d{4}[-./]\d{2}[-./]\d{2})\s*[~-]\s*(\d{4}[-./]\d{2}[-./]\d{2})/ matches.
BizinfoPeriodMatches(text) ==
  {i \in 1..(Len(text) - 2) :
     /\ IsDate(text[i], {"-", ".", "/"})
     /\ text[i + 1].t \in {"~", "-"}
     /\ IsDate(text[i + 2], {"-", ".", "/"})}

First(S) == CHOOSE i \in S : \A j \in S : i <= j

\* The period branches of parseListPage and parseDetailPage of bizinfo.ts.
BizinfoPeriod(text) ==
  IF BizinfoPeriodMatches(text) = {}
    THEN [applicationStart |-> NoDate, applicationEnd |-> NoDate]
    ELSE LET i == First(BizinfoPeriodMatches(text))
         IN [applicationStart |-> ParseDate(text[i], FALSE),
             applicationEnd |-> ParseDate(text[i + 2], TRUE)]

\* /(\d{4}-\d{2}-\d{2}).*?[~\-].*?(\d{4}-\d{2}-\d{2})/: the first date
\* written with hyphens, then the nearest such date that has a '~' or a '-'
\* (a hyphen inside a date included) between the two.
KStartupFirstDates(text) == {i \in 1..Len(text) : IsDate(text[i], {"-"})}

KStartupSecondDates(text, i) ==
  {k \in (i + 1)..Len(text) :
     /\ IsDate(text[k], {"-"})
     /\ \E j \in (i + 1)..(k - 1) : text[j].t \in {"~", "-"} \/ IsDate(text[j], {"-"})}

\* The period branch of parseDetailPage of kstartup.ts.
KStartupPeriod(text) ==
  IF \A i \in KStartupFirstDates(text) : KStartupSecondDates(text, i) = {}
    THEN [applicationStart |-> NoDate, applicationEnd |-> NoDate]
    ELSE LET i == First({n \in KStartupFirstDates(text) : KStartupSecondDates(text, n) # {}})
             k == First(KStartupSecondDates(text, i))
         IN [applicationStart |-> NewDateIso(text[i]),
             applicationEnd |-> NewDateIso(text[k])]

\* Calendar dates and the separators a page writes them with.
Days == {<<2026, 1, 6>>, <<2026, 1, 27>>, <<2025, 12, 31>>}
DateTokens == {DateToken(c[1], c[2], c[3], sep) : c \in Days, sep \in {"-", ".", "/"}}

\* "A ~ B", "A - B", "A ~ B 16:00", a single date, and free text.
PeriodTexts ==
  {<<a, Sym(s), b>> : a \in DateTokens, s \in {"~", "-"}, b \in DateTokens}
  \cup {<<a, Sym("~"), b, Sym("16:00")>> : a \in DateTokens, b \in DateTokens}
  \cup {<<a>> : a \in DateTokens}
  \cup {<<Sym("always")>>}

NoPeriod == [applicationStart |-> NoDate, applicationEnd |-> NoDate]

PeriodInputs == [src : Sources, text : PeriodTexts]

InitDateVars ==
  /\ tPc = "input"
  /\ tIn \in PeriodInputs
  /\ tOut = NoPeriod

IdlePeriodInput == [src |-> "bizinfo", text |-> <<Sym("always")>>]

\* No period string is being parsed.
InitDateIdle ==
  /\ tPc = "idle"
  /\ tIn = IdlePeriodInput
  /\ tOut = NoPeriod

\* bizinfo.ts: the period of a list row or of a detail section is parsed.
DateParseBizinfo ==
  /\ tPc = "input"
  /\ tIn.src = "bizinfo"
  /\ tOut' = BizinfoPeriod(tIn.text)
  /\ tPc' = "parsed"
  /\ UNCHANGED tIn
  /\ UNCHANGED nonDateVars

\* kstartup.ts: the text after the period label of a detail page is parsed.
DateParseKStartup ==
  /\ tPc = "input"
  /\ tIn.src = "k-startup"
  /\ tOut' = KStartupPeriod(tIn.text)
  /\ tPc' = "parsed"
  /\ UNCHANGED tIn
  /\ UNCHANGED nonDateVars

NextDate ==
  \/ DateParseBizinfo
  \/ DateParseKStartup

(***************************************************************************)
(* Detail sections: the label/value passes of parseDetailPage (bizinfo.ts) *)
(***************************************************************************)
MaxSpans == 2
MaxRows == 2

\* The branches of the if / else-if chain, in its order. A label is the set
\* of branches whose keywords the header text includes.
LabelChain ==
  <<"description", "eligibility", "organization", "period", "region", "field", "funding">>

\* The branch the chain takes for a header text: the first whose condition holds.
Classify(label) ==
  IF \A i \in 1..Len(LabelChain) : LabelChain[i] \notin label
    THEN "none"
    ELSE LabelChain[First({i \in 1..Len(LabelChain) : LabelChain[i] \in label})]

\* The field of result a branch assigns.
FieldOf(kind) ==
  CASE kind = "description" -> "description"
    [] kind = "eligibility" -> "eligibility"
    [] kind = "organization" -> "organization"
    [] kind = "region" -> "targetRegion"
    [] kind = "field" -> "supportField"
    [] kind = "funding" -> "fundingAmount"
    [] OTHER -> "none"

SectionFields ==
  {"description", "eligibility", "organization", "targetRegion", "supportField",
   "fundingAmount"}

\* const result: DetailPageData = {} (the title aside)
EmptySections ==
  [f \in SectionFields \cup {"applicationStart", "applicationEnd"} |->
     IF f \in SectionFields THEN NoVal ELSE NoDate]

\* The body of the chain for one header/value pair.
ApplyPair(result, pair) ==
  LET kind == Classify(pair.label) IN
  IF kind = "period"
    THEN LET p == BizinfoPeriod(pair.period)
         IN [result EXCEPT
               !.applicationStart = IF p.applicationStart # NoDate THEN p.applicationStart ELSE @,
               !.applicationEnd = IF p.applicationEnd # NoDate THEN p.applicationEnd ELSE @]
    ELSE IF kind = "none" THEN result
    ELSE [result EXCEPT ![FieldOf(kind)] = pair.value]

\* $('span.s_title').each(...): a section without a div.txt, or with an empty
\* header or value (value ""), is skipped.
RECURSIVE FirstPass(_, _)
FirstPass(result, spans) ==
  IF spans = <<>> THEN result
  ELSE FirstPass(IF Head(spans).value = "" THEN result ELSE ApplyPair(result, Head(spans)),
                 Tail(spans))

\* $('th, dt').each(...): every row goes through the chain.
RECURSIVE SecondPass(_, _)
SecondPass(result, rows) ==
  IF rows = <<>> THEN result
  ELSE SecondPass(ApplyPair(result, Head(rows)), Tail(rows))

\* if (!result.description && !result.eligibility)
RunsSecondPass(result) == Falsy(result.description) /\ Falsy(result.eligibility)

\* parseDetailPage from the first pass to the end of the second.
ParseSections(spans, rows) ==
  LET r1 == FirstPass(EmptySections, spans)
  IN [afterFirst |-> r1,
      secondPass |-> RunsSecondPass(r1),
      result |-> IF RunsSecondPass(r1) THEN SecondPass(r1, rows) ELSE r1]

\* Header/value pairs of a page: text sections, and one application period.
TextPair(label, value) == [label |-> label, value |-> value, period |-> <<>>]

Pairs ==
  {TextPair(l, v) : l \in {{"description"}, {"organization"}, {"eligibility", "region"}},
                    v \in {"", "v1", "v2"}}
  \cup {TextPair({}, "v1")}
  \cup {[label |-> {"period"}, value |-> "p",
         period |-> <<DateToken(2026, 1, 6, "-"), Sym("~"), DateToken(2026, 1, 27, "-")>>]}

SeqsUpTo(S, n) == UNION {[1..k -> S] : k \in 0..n}

SectionInputs == [spans : SeqsUpTo(Pairs, MaxSpans), rows : SeqsUpTo(Pairs, MaxRows)]

NoSections == [afterFirst |-> EmptySections, secondPass |-> FALSE, result |-> EmptySections]

InitParseVars ==
  /\ qPc = "input"
  /\ qIn \in SectionInputs
  /\ qOut = NoSections

\* No detail page is being parsed.
InitParseIdle ==
  /\ qPc = "idle"
  /\ qIn = [spans |-> <<>>, rows |-> <<>>]
  /\ qOut = NoSections

\* parseDetailPage(html) runs its two label/value passes; the fallbacks after
\* them only assign fields that are still empty.
ParseDetailSections ==
  /\ qPc = "input"
  /\ qOut' = ParseSections(qIn.spans, qIn.rows)
  /\ qPc' = "parsed"
  /\ UNCHANGED qIn
  /\ UNCHANGED nonParseVars

NextParse == ParseDetailSections

(***************************************************************************)
(* Batch re-extraction: POST /api/process-llm                              *)
(***************************************************************************)
MaxBatchRows == 3
MaxBatchLimit == 2

\* The columns of a row the endpoint never names in an update: listing,
\* detail and matching fields, and the identity.
BatchFrameFields == {"id", "createdAt", "title", "eligibility", "description", "companyAge"}

\* Row i of the table as the crawl left it; every third row has neither
\* eligibility nor description, every third no description.
BatchRow(i, processed) ==
  [id |-> i, createdAt |-> i, title |-> "L",
   eligibility |-> IF i % 3 = 0 THEN NullVal ELSE "E",
   description |-> IF i % 3 = 1 THEN "D" ELSE NullVal,
   companyAge |-> IF processed = YES THEN "T" ELSE NullVal,
   llmProcessed |-> processed,
   applicationTarget |-> NullVal]

BatchIds == 1..MaxBatchRows

BatchStores ==
  {{BatchRow(i, flags[i]) : i \in BatchIds} : flags \in [BatchIds -> {YES, NO}]}

\* where: force ? {} : { llmProcessed: false }, with the filter dropped
BatchWhere_All(force, r) == TRUE

\* where: force ? {} : { llmProcessed: false }
BatchWhere(force, r) == force \/ r.llmProcessed = NO

\* orderBy: { createdAt: 'desc' }
RECURSIVE NewestFirst(_)
NewestFirst(rows) ==
  IF rows = {} THEN <<>>
  ELSE LET newest == CHOOSE r \in rows : \A o \in rows : o.createdAt <= r.createdAt
       IN <<newest>> \o NewestFirst(rows \ {newest})

\* select: { id, title, eligibility, description }
BatchSelect(r) ==
  [id |-> r.id, title |-> r.title, eligibility |-> r.eligibility,
   description |-> r.description]

\* prisma.supportProgram.findMany({ where, select, take: limit, orderBy })
FindPrograms(st, force, limit) ==
  LET matching == NewestFirst({r \in st : BatchWhere(force, r)})
  IN [i \in 1..Min(limit, Len(matching)) |-> BatchSelect(matching[i])]

\* JSON.stringify(target)
JsonStringify(target) ==
  "{" \o target.aiSummary \o "," \o target.companyAge \o "," \o target.targetRegion
      \o "," \o target.targetAge \o "," \o target.targetIndustry \o ","
      \o target.exclusionDetail \o "}"

\* The update that marks a row processed only when a result came back.
BatchData_FlagOnResult(target) ==
  [applicationTarget |-> IF target # Null THEN JsonStringify(target) ELSE NullVal,
   llmProcessed |-> IF target # Null THEN YES ELSE NO]

\* data: { applicationTarget: target ? JSON.stringify(target) : null,
\*         llmProcessed: true }
BatchData(target) ==
  [applicationTarget |-> IF target # Null THEN JsonStringify(target) ELSE NullVal,
   llmProcessed |-> YES]

\* prisma.supportProgram.update({ where: { id }, data })
BatchUpdate(st, id, data) ==
  {IF r.id = id
     THEN [r EXCEPT !.applicationTarget = data.applicationTarget,
                    !.llmProcessed = data.llmProcessed]
     ELSE r : r \in st}

\* What generateContent answers if the extraction calls it.
BatchReplies == {[f \in TargetFields |-> "T"], Garbage, Raises}

NoRequest == [limit |-> 0, force |-> FALSE, apiKey |-> FALSE]

NoResponse ==
  [status |-> 0, success |-> FALSE, processed |-> 0, errors |-> 0, message |-> ""]

\* { success: true, message: '처리할 공고가 없습니다.', processed: 0 }
NothingToProcess ==
  [status |-> 200, success |-> TRUE, processed |-> 0, errors |-> 0, message |-> "none"]

\* The number of entries of results with the given success flag.
CountResults(results, flag) ==
  Cardinality({i \in 1..Len(results) : results[i].success = flag})

InitBatchVars ==
  /\ bPc = "idle"
  /\ bReq = NoRequest
  /\ bPrograms = <<>>
  /\ bIdx = 0
  /\ bResults = <<>>
  /\ bStore \in BatchStores
  /\ bResponse = NoResponse
  /\ bAtCall = bStore
  /\ bSelected = {}
  /\ bTwice = FALSE

\* The endpoint is not called; the table is empty.
InitBatchIdle ==
  /\ bPc = "idle"
  /\ bReq = NoRequest
  /\ bPrograms = <<>>
  /\ bIdx = 0
  /\ bResults = <<>>
  /\ bStore = {}
  /\ bResponse = NoResponse
  /\ bAtCall = {}
  /\ bSelected = {}
  /\ bTwice = FALSE

\* POST is called with ?limit=&force=; findMany runs (findOk) or throws.
BatchCallWith(forces, limits, findOks) ==
  /\ bPc = "idle"
  /\ \E force \in forces, limit \in limits, apiKey \in BOOLEAN, findOk \in findOks :
       LET programs == FindPrograms(bStore, force, limit)
           ids == {programs[i].id : i \in 1..Len(programs)}
       IN /\ bReq' = [limit |-> limit, force |-> force, apiKey |-> apiKey]
          /\ bAtCall' = bStore
          /\ bResults' = <<>>
          /\ IF ~findOk
               THEN \* outer catch: status 500
                    /\ bResponse' = [NoResponse EXCEPT !.status = 500, !.message = "error"]
                    /\ bPrograms' = <<>>
                    /\ bIdx' = 0
                    /\ bPc' = "idle"
                    /\ UNCHANGED <<bSelected, bTwice>>
               ELSE /\ bPrograms' = programs
                    /\ bSelected' = IF force THEN bSelected ELSE bSelected \cup ids
                    /\ bTwice' = (bTwice \/ (~force /\ ids \cap bSelected # {}))
                    /\ IF Len(programs) = 0
                         THEN /\ bResponse' = NothingToProcess
                              /\ bIdx' = 0
                              /\ bPc' = "idle"
                         ELSE /\ bResponse' = NoResponse
                              /\ bIdx' = 1
                              /\ bPc' = "loop"
  /\ UNCHANGED bStore
  /\ UNCHANGED nonBatchVars

BatchCall == BatchCallWith(BOOLEAN, 0..MaxBatchLimit, BOOLEAN)

\* One iteration of the for loop: the extraction, the update, and the catch.
BatchRecordWith(dbOks) ==
  /\ bPc = "loop"
  /\ bIdx <= Len(bPrograms)
  /\ \E reply \in BatchReplies, dbOk \in dbOks :
       LET program == bPrograms[bIdx]
           target == ExtractApplicationTarget(bReq.apiKey, OrElse(program.eligibility, ""),
                                              OrElse(program.description, ""), reply)
       IN IF dbOk
            THEN /\ bStore' = BatchUpdate(bStore, program.id, BatchData(target))
                 /\ bResults' = Append(bResults, [id |-> program.id, success |-> TRUE])
            ELSE \* catch (error): errorCount++
                 /\ bResults' = Append(bResults, [id |-> program.id, success |-> FALSE])
                 /\ UNCHANGED bStore
  /\ bIdx' = bIdx + 1
  /\ UNCHANGED <<bPc, bReq, bPrograms, bResponse, bAtCall, bSelected, bTwice>>
  /\ UNCHANGED nonBatchVars

BatchRecord == BatchRecordWith(BOOLEAN)

\* The loop is over: { success: true, processed: successCount, errors: errorCount, results }
BatchReturn ==
  /\ bPc = "loop"
  /\ bIdx > Len(bPrograms)
  /\ bResponse' = [status |-> 200, success |-> TRUE,
                   processed |-> CountResults(bResults, TRUE),
                   errors |-> CountResults(bResults, FALSE), message |-> ""]
  /\ bPc' = "idle"
  /\ UNCHANGED <<bReq, bPrograms, bIdx, bResults, bStore, bAtCall, bSelected, bTwice>>
  /\ UNCHANGED nonBatchVars

NextBatch ==
  \/ BatchCall
  \/ BatchRecord
  \/ BatchReturn

\* Calls without force, with a limit of at least 1, while findMany and the
\* updates succeed.
BatchCallUnforced == BatchCallWith({FALSE}, 1..MaxBatchLimit, {TRUE})

BatchRecordStored == BatchRecordWith({TRUE})

NextBatchUnforced ==
  \/ BatchCallUnforced
  \/ BatchRecordStored
  \/ BatchReturn

(***************************************************************************)
(* Specifications                                                          *)
(***************************************************************************)
InitFetch == InitFetchVars /\ InitPupVars /\ InitBatchIdle /\ InitParseIdle /\ InitDateIdle /\ InitCrawlVars /\ InitLlmIdle /\ InitMergeIdle

SpecFetch == InitFetch /\ [][NextFetch]_vars

InitPup == InitFetchVars /\ InitPupVars /\ InitBatchIdle /\ InitParseIdle /\ InitDateIdle /\ InitCrawlVars /\ InitLlmIdle /\ InitMergeIdle

SpecPup == InitPup /\ [][NextPup]_vars

Sites == {LoopSite, PagedSite} \cup ItemSites

Init == InitFetchVars /\ InitPupVars /\ InitBatchIdle /\ InitParseIdle /\ InitDateIdle /\ InitLlmIdle /\ InitMergeIdle /\ \E site \in Sites : InitCrawlAt(site)
Spec == Init /\ [][Next]_vars

InitLlm == InitFetchVars /\ InitPupVars /\ InitBatchIdle /\ InitParseIdle /\ InitDateIdle /\ InitCrawlVars /\ InitLlmVars /\ InitMergeIdle
SpecLlm == InitLlm /\ [][NextLlm]_vars

InitMerge == InitFetchVars /\ InitPupVars /\ InitBatchIdle /\ InitParseIdle /\ InitDateIdle /\ InitCrawlVars /\ InitLlmIdle /\ InitMergeVars
SpecMerge == InitMerge /\ [][NextMerge]_vars

InitDate == InitFetchVars /\ InitPupVars /\ InitBatchIdle /\ InitParseIdle /\ InitCrawlVars /\ InitLlmIdle /\ InitMergeIdle /\ InitDateVars
SpecDate == InitDate /\ [][NextDate]_vars

InitParse == InitFetchVars /\ InitPupVars /\ InitBatchIdle /\ InitDateIdle /\ InitCrawlVars /\ InitLlmIdle /\ InitMergeIdle /\ InitParseVars
SpecParse == InitParse /\ [][NextParse]_vars

InitBatch == InitFetchVars /\ InitPupVars /\ InitParseIdle /\ InitDateIdle /\ InitCrawlVars /\ InitLlmIdle /\ InitMergeIdle /\ InitBatchVars
SpecBatch == InitBatch /\ [][NextBatch]_vars

\* The endpoint is called again and again (a scheduler, or the operator):
\* a call that can be made is made, a call in progress goes on.
SpecBatchFair == InitBatch /\ [][NextBatchUnforced]_vars /\ WF_vars(NextBatchUnforced)

(***************************************************************************)
(* Properties of a crawl pass                                              *)
(***************************************************************************)
Events(ev) == {i \in 1..Len(cLog) : cLog[i].ev = ev}
FailedEvents(ev) == {i \in Events(ev) : ~cLog[i].ok}

\* Item j of list page p went through the item loop body.
Processed(p, j) == \E i \in Events("item") : cLog[i].page = p /\ cLog[i].idx = j

\* List page p was asked for.
Attempted(p) == \E i \in Events("list") : cLog[i].page = p

\* The source id of the item a log entry is about.
EventId(i) == ItemsOf(cOpt, cSite, cLog[i].page)[cLog[i].idx].sourceId

ItemIds == {"a", "b", "c", "d", "x", "t"}

\* The number of entries of the error list equal to e.
Entries(e) == Cardinality({k \in 1..Len(cErrors) : cErrors[k] = e})

\* Every failure of an item has its one entry in the error list.
OneEntryPerItemFailure ==
  \A id \in ItemIds :
    Entries(ItemError(id)) = Cardinality({i \in FailedEvents("item") : EventId(i) = id})

\* C1 (as stated): when the processing of one item fails, exactly one entry
\* for it is appended to the error list, and every later item of the same
\* list page is still processed.
Cex_C1_LaterItemsAllProcessed ==
  /\ OneEntryPerItemFailure
  /\ \A i \in FailedEvents("item") :
       cPage > cLog[i].page =>
         \A k \in (cLog[i].idx + 1)..Len(ItemsOf(cOpt, cSite, cLog[i].page)) :
           Processed(cLog[i].page, k)

\* C1 (amended): when the processing of one item fails, exactly one entry
\* for it is appended to the error list; the item right after it is always
\* processed, and every later item of the page is processed unless the
\* pass's limit of successfully stored items has been reached by then.
Thm_C1_FailedItemIsolated ==
  /\ OneEntryPerItemFailure
  /\ \A i \in FailedEvents("item") :
       LET p == cLog[i].page
           j == cLog[i].idx
           n == Len(ItemsOf(cOpt, cSite, p))
       IN cPage > p =>
            /\ j < n => Processed(p, j + 1)
            /\ \A k \in (j + 1)..n :
                 Processed(p, k) \/ LimitReached(cOpt, cTotalProcessed)

\* The first item of page 1 failed on its upsert or detail fetch, the two
\* items after it were processed, and the pass returned its one error.
Wit_C1_FirstFailsRestProcessed ==
  /\ cPc = "returned"
  /\ \E i \in FailedEvents("item") : cLog[i].page = 1 /\ cLog[i].idx = 1
  /\ Processed(1, 2) /\ Processed(1, 3)
  /\ cErrors = <<ItemError("a")>>
  /\ cResult.count = 2 /\ ~cResult.success

\* C2: a failure to fetch list page p (page 1 included) is caught and
\* recorded as one entry of the error list and the pages after p are still
\* crawled; only a failure to acquire a resource (the browser launch) makes
\* the pass return the aborted result.
Cex_C2_PageFailureNeverAborts ==
  cPc = "returned" =>
    /\ \A i \in FailedEvents("list") :
         /\ Entries(PageError(cLog[i].page)) = 1
         /\ \A q \in (cLog[i].page + 1)..LoopMax(cOpt, cTotalPages) : Attempted(q)
    /\ cResult.errors = <<CrawlError>> => FailedEvents("launch") # {}

\* The keys the pass has upserted, and the times of the upserts of a key.
UpsertedKeys == {<<cUpserts[i].source, cUpserts[i].sourceId>> : i \in 1..Len(cUpserts)}
UpsertTimes(key) ==
  {cUpserts[i].at : i \in {n \in 1..Len(cUpserts) :
                             <<cUpserts[n].source, cUpserts[n].sourceId>> = key}}
Records(key) == {r \in store : <<r.source, r.sourceId>> = key}
Earliest(times) == CHOOSE t \in times : \A u \in times : t <= u
Latest(times) == CHOOSE t \in times : \A u \in times : u <= t

\* C5: however often the pipeline has upserted a key, the store holds
\* exactly one record with it; createdAt is the time of the first upsert,
\* updatedAt the time of the latest, so after a second upsert updatedAt is
\* later than it was after the first.
Thm_C5_UpsertIdempotent ==
  \A key \in UpsertedKeys :
    /\ Cardinality(Records(key)) = 1
    /\ \A r \in Records(key) :
         /\ r.createdAt = Earliest(UpsertTimes(key))
         /\ r.updatedAt = Latest(UpsertTimes(key))
         /\ Cardinality(UpsertTimes(key)) >= 2 => r.updatedAt > r.createdAt

\* Item b, listed on both pages, has been upserted twice in one pass.
Wit_C5_SameKeyUpsertedTwice ==
  \E key \in UpsertedKeys :
    /\ Cardinality(UpsertTimes(key)) = 2
    /\ \E r \in Records(key) : r.createdAt < r.updatedAt
    /\ Len(cUpserts) >= 2

CriticalFields == {"companyAge", "targetRegion", "applicationStart", "applicationEnd"}

\* A critical field is absent from the item's record ({...item, ...detailData}).
RecordLacksCritical(item, d) == \E f \in CriticalFields : Falsy(Spread(item, d, f))

\* C6: with detail fetching and rendering enabled, the vision tier is
\* invoked for an item exactly when a critical field is still absent from
\* the item's record after structural extraction and the text-LLM step, and
\* at most once.
Cex_C6_VisionIffCriticalMissing ==
  cLast.detailed /\ cOpt.usePuppeteer =>
    /\ cLast.visionCalls = 1 <=> RecordLacksCritical(cLast.item, cLast.afterText)
    /\ cLast.visionCalls <= 1

\* C7: a stored record has llmProcessed true only if an LLM call made for
\* it returned a response that parsed as the structured result.
Cex_C7_LlmProcessedOnlyIfParsed ==
  \A r \in store : r.llmProcessed = YES => <<r.source, r.sourceId>> \in cParsed

\* C8: when crawlBizinfo has returned, the browser it used, launched by
\* itself or passed in, is closed.
Cex_C8_BrowserClosedOnReturn ==
  cPc = "returned" => cLocalBrowser # "open" /\ cGivenBrowser # "open"

(***************************************************************************)
(* Properties of the merge policy                                          *)
(***************************************************************************)
\* C16: when keyword inference yields a support field, the stored
\* supportField is that value whatever the text LLM returns; a support field
\* suggested by the LLM is stored only when keyword inference produced
\* nothing and the record had no supportField.
Thm_C16_KeywordPrecedence ==
  mPc = "stored" =>
    /\ ~Falsy(mIn.keyword) => mStored.supportField = mIn.keyword
    /\ mStored.supportField = "S" =>
         Falsy(mIn.keyword) /\ Falsy(mIn.detail.supportField)
    /\ Falsy(mIn.keyword) /\ ~Falsy(mIn.detail.supportField) =>
         mStored.supportField = mIn.detail.supportField

\* The keyword inference fired on an item whose detail page shows a support
\* field and for which the LLM suggested another: the keyword value is stored.
Wit_C16_KeywordBeatsLlm ==
  /\ mPc = "stored"
  /\ mIn.keyword = "K"
  /\ mIn.llmField = "S"
  /\ mIn.detail.supportField = "D"
  /\ mIn.apiKey /\ mIn.text \in JsonResponses("T")
  /\ mStored.supportField = "K"

\* C17: merging the text-LLM result only fills: a non-empty companyAge,
\* targetRegion, targetAge or targetIndustry that structural extraction put
\* in the record is not replaced by the text-LLM value.
Cex_C17_TextMergeOnlyFills ==
  mPc = "text" /\ mTarget # Null =>
    \A f \in SentinelFields : ~Falsy(mPrev[f]) => mD[f] = mPrev[f]

\* C18: when the vision tier returns a result, each non-empty field of it
\* among companyAge, targetRegion, targetAge, targetIndustry overwrites the
\* record's field, each empty one leaves it, and the other data fields of
\* the record are unchanged.
Thm_C18_VisionOverwritesNonEmpty ==
  mPc = "vision" /\ mVision /\ mTarget # Null =>
    /\ \A f \in SentinelFields :
         mD[f] = IF ~Falsy(mTarget[f]) THEN mTarget[f] ELSE mPrev[f]
    /\ \A f \in DetailFields \ (SentinelFields \cup {"llmProcessed"}) : mD[f] = mPrev[f]

\* The vision tier returned a result for a record whose targetAge the text
\* LLM had set and whose supportField the keyword inference had set.
Wit_C18_VisionReplacesTextValue ==
  /\ mPc = "vision" /\ mVision /\ mTarget # Null
  /\ mPrev.targetAge = "T" /\ mTarget.targetAge = "V" /\ mD.targetAge = "V"
  /\ mTarget.companyAge = SENTINEL_ANY /\ mD.companyAge = SENTINEL_ANY
  /\ mPrev.applicationStart = NoVal /\ mD.applicationStart = NoVal
  /\ mD.supportField = "K"

(***************************************************************************)
(* Properties of listing and pagination                                    *)
(***************************************************************************)
\* C19: when a single target id is supplied, crawlBizinfo performs no
\* list-page fetch and processes exactly the one target item; a failing list
\* page cannot prevent that.
Cex_C19_TargetBypassesListing ==
  cOpt.src = "bizinfo" /\ cOpt.targetId # NoVal =>
    /\ Events("list") = {}
    /\ cPc = "returned" /\ FailedEvents("launch") = {} =>
         Processed(1, 1) /\ Cardinality(Events("item")) = 1

\* The largest page number a pagination is taken to show.
MaxAdvertised == 50

\* getTotalPages returns a value between 1 and 10 whatever the page shows.
DiscoveryClamped == \A adv \in 0..MaxAdvertised : GetTotalPages(adv) \in 1..PAGE_CEILING

\* The list pages are fetched in ascending order, none twice.
FetchedAscending ==
  \A i, j \in Events("list") : i < j => cLog[i].page < cLog[j].page

\* min(discovered total, maxPages)
PageBudget == Min(GetTotalPages(cSite.advertised), cOpt.maxPages)

StoredBefore(i) == Cardinality({k \in Events("item") : k < i /\ cLog[k].ok})

\* C21: with an item limit L >= 1, a pass upserts at most L items, and once
\* L items have been upserted no item is taken through the loop body (detail
\* fetch, LLM calls, upsert) any more, on the current page or a later one.
Thm_C21_LimitStopsWork ==
  cOpt.limit >= 1 =>
    /\ Len(cUpserts) <= cOpt.limit
    /\ cSuccessCount <= cOpt.limit
    /\ \A i \in Events("item") : StoredBefore(i) < cOpt.limit

\* A pass with limit 1 stored the first item of page 1, left the other two
\* alone, fetched list page 2 and took up none of its items.
Wit_C21_LimitOneStopsBothPages ==
  /\ cPc = "returned"
  /\ cOpt.limit = 1
  /\ cOpt.fetchDetails
  /\ cResult.count = 1
  /\ Processed(1, 1) /\ ~Processed(1, 2) /\ ~Processed(1, 3)
  /\ Attempted(2)
  /\ ~Processed(2, 1)

\* C22: with an item limit L >= 1, the number of items a pass takes up for
\* processing (detail fetch attempted), failed ones included, is at most L.
Cex_C22_TakenUpWithinLimit ==
  cOpt.limit >= 1 /\ cOpt.fetchDetails => Cardinality(Events("item")) <= cOpt.limit

(***************************************************************************)
(* Properties of the pacing                                                *)
(***************************************************************************)
\* The log entry right before entry i is a wait at least as long as the
\* inter-request delay.
DelayedBefore(i) == i > 1 /\ cLog[i - 1].ev \in {"delay", "backoff"}

\* C23: every detail-page fetch of a pass is preceded by the inter-request
\* delay, and the delay also elapses between the end of the work on list
\* page p and the fetch of list page p+1, also when page p ended with an error.
Cex_C23_DelayBeforeEveryFetch ==
  /\ \A i \in Events("item") : cOpt.fetchDetails => DelayedBefore(i)
  /\ \A i \in Events("list") : cLog[i].page >= 2 => DelayedBefore(i)

(***************************************************************************)
(* Properties of the result of a pass                                      *)
(***************************************************************************)
\* The entries of the returned error list that are about an item.
ItemEntries == {k \in 1..Len(cResult.errors) : cResult.errors[k].kind = "item"}

EnrichmentFields == {"llmProcessed"}

\* This step upserted the existing record r without an LLM result for it.
RevisitedWithoutLlm(r) ==
  /\ Len(cUpserts') = Len(cUpserts) + 1
  /\ cUpserts'[Len(cUpserts')].source = r.source
  /\ cUpserts'[Len(cUpserts')].sourceId = r.sourceId
  /\ ~cLast'.llm

\* C29: a pass that revisits an existing record and obtains no LLM result
\* for it leaves the record's llmProcessed flag and its enrichment fields as
\* they were.
Cex_C29_RevisitKeepsEnrichment ==
  [][\A r \in store :
       RevisitedWithoutLlm(r) =>
         \E r2 \in store' :
           /\ r2.source = r.source /\ r2.sourceId = r.sourceId
           /\ \A f \in EnrichmentFields : r2[f] = r[f]]_vars

(***************************************************************************)
(* Properties of the application period                                    *)
(***************************************************************************)
\* The text is "A ~ B" with both dates written YYYY-MM-DD.
IsHyphenRange(text) ==
  /\ Len(text) = 3
  /\ IsDate(text[1], {"-"}) /\ text[2].t = "~" /\ IsDate(text[3], {"-"})

\* The Date shows the calendar date of tok at the time of day hh:mm:ss.
ShowsAt(date, tok, hh, mm, ss) ==
  /\ date.y = tok.y /\ date.m = tok.m /\ date.d = tok.d
  /\ date.hh = hh /\ date.mm = mm /\ date.ss = ss

\* C24: for both sources, parsing "A ~ B" (A, B of form YYYY-MM-DD) yields
\* applicationStart = A at 00:00:00 and applicationEnd = B at 23:59:59.
Cex_C24_RangeStartAndEndOfDay ==
  tPc = "parsed" /\ IsHyphenRange(tIn.text) =>
    /\ ShowsAt(tOut.applicationStart, tIn.text[1], 0, 0, 0)
    /\ ShowsAt(tOut.applicationEnd, tIn.text[3], 23, 59, 59)

(***************************************************************************)
(* Properties of detail parsing                                            *)
(***************************************************************************)
\* The pairs the passes went through, in order.
PairsSeen == IF qOut.secondPass THEN qIn.spans \o qIn.rows ELSE qIn.spans

\* The pairs that match field f with a non-empty value.
Matches(f) ==
  {i \in 1..Len(PairsSeen) :
     FieldOf(Classify(PairsSeen[i].label)) = f /\ PairsSeen[i].value # ""}

\* C27: over any sequence of (label, value) pairs, for each semantic field
\* the first non-empty match wins: no later pair matching the same field, in
\* the first or in the second pass, replaces a non-empty value; and the
\* second pass runs only if the first yielded neither description nor
\* eligibility.
Cex_C27_FirstNonEmptyWins ==
  qPc = "parsed" =>
    /\ \A f \in SectionFields :
         Matches(f) # {} => qOut.result[f] = PairsSeen[First(Matches(f))].value
    /\ qOut.secondPass =>
         Falsy(qOut.afterFirst.description) /\ Falsy(qOut.afterFirst.eligibility)

(***************************************************************************)
(* Batch re-extraction                                                     *)
(***************************************************************************)
\* The row with the given id in a table.
RowOf(st, id) == CHOOSE r \in st : r.id = id

\* The ids of the programs whose iteration ended with the given success flag.
BatchIdsWith(flag) == {bResults[i].id : i \in {j \in 1..Len(bResults) : bResults[j].success = flag}}

\* The call is over and answered with the counts of the loop.
BatchAnswered == bPc = "idle" /\ bResponse.status = 200 /\ bResponse.message = ""

\* C25: one call with item limit N selects at most N records; without force
\* every selected record had llmProcessed = false when findMany ran; each
\* iteration writes only applicationTarget and llmProcessed of its own record,
\* so no listing, detail or matching field of any record changes and no other
\* record changes at all; every selected record gets its iteration, in order,
\* whether or not an earlier one failed, and the response counts them all.
Thm_C25_BatchSelectsAndFrames ==
  /\ Len(bPrograms) <= bReq.limit
  /\ \A i \in 1..Len(bPrograms) :
       /\ \E r \in bAtCall : r.id = bPrograms[i].id
       /\ ~bReq.force => RowOf(bAtCall, bPrograms[i].id).llmProcessed = NO
  /\ {r.id : r \in bStore} = {r.id : r \in bAtCall}
  /\ \A r \in bStore :
       /\ \A f \in BatchFrameFields : r[f] = RowOf(bAtCall, r.id)[f]
       /\ r.id \notin BatchIdsWith(TRUE) => r = RowOf(bAtCall, r.id)
       /\ r.id \in BatchIdsWith(TRUE) => r.llmProcessed = YES
  /\ bPc = "loop" => Len(bResults) = bIdx - 1
  /\ \A i \in 1..Len(bResults) : bResults[i].id = bPrograms[i].id
  /\ BatchAnswered =>
       /\ Len(bResults) = Len(bPrograms)
       /\ bResponse.processed + bResponse.errors = Len(bPrograms)
       /\ bResponse.processed = Cardinality(BatchIdsWith(TRUE))

\* A call without force and with limit 2 whose first update failed and whose
\* second record was nevertheless extracted and stored.
Wit_C25_FailureThenStored ==
  /\ BatchAnswered
  /\ ~bReq.force
  /\ bReq.limit = 2
  /\ Len(bResults) = 2
  /\ ~bResults[1].success
  /\ bResults[2].success
  /\ RowOf(bAtCall, bResults[2].id).llmProcessed = NO
  /\ RowOf(bStore, bResults[2].id).llmProcessed = YES
  /\ RowOf(bStore, bResults[1].id) = RowOf(bAtCall, bResults[1].id)
  /\ bResponse.processed = 1
  /\ bResponse.errors = 1

\* A call found nothing to process, and nothing is left unprocessed.
BatchDrained ==
  /\ bPc = "idle"
  /\ bResponse = NothingToProcess
  /\ \A r \in bStore : r.llmProcessed = YES

\* C30: without force, with a limit of at least 1, a table nothing else
\* writes and updates that succeed, repeated calls reach a call that finds no
\* unprocessed record and reports processed 0, whatever the extraction
\* returns; and no record is selected by two of those calls.
Thm_C30_RepeatedCallsDrain == [](~bTwice) /\ <>BatchDrained

\* Every row was unprocessed, each was selected once, one of them got no
\* extraction result, and the table is drained.
Wit_C30_DrainedWithEmptyResult ==
  /\ BatchDrained
  /\ bSelected = BatchIds
  /\ ~bTwice
  /\ \E r \in bStore : r.applicationTarget = NullVal
  /\ \E r \in bStore : r.applicationTarget # NullVal

====
